---------------------------- MODULE Spec2Model ----------------------------
(***************************************************************************)
(* A model of the comparison engine of the certificate checker             *)
(* (src/core/comparator.py, src/core/unit_normalizer.py), of the result    *)
(* schema (src/core/schemas.py), of the retry decorators                   *)
(* (src/core/retry_config.py) and of the audit log (src/core/logger.py).   *)
(*                                                                         *)
(* Text is modelled as a sequence of characters, each character a string   *)
(* of its own: "pH" is <<"p", "H">>.  The characters the source uses that  *)
(* are outside ASCII carry a name: "le" (U+2264), "ge" (U+2265), "approx"  *)
(* (U+2248), "emdash" (U+2014), "arrow" (U+2192), "micro" (U+00B5),       *)
(* "sup3" (U+00B3) and "deg" (U+00B0).  A message the code assembles from  *)
(* literals is a sequence whose literal parts are single elements.         *)
(*                                                                         *)
(* A float is a decimal fraction [n |-> numerator, d |-> power of ten];    *)
(* Python's None is the record None.                                       *)
(***************************************************************************)
EXTENDS Integers, Sequences, FiniteSets, TLC

VARIABLES
    spec_data,        \* the specification record handed to compare_documents
    cert_data,        \* the certificate record
    cert_type,        \* the certificate kind argument
    classification,   \* the optional classifier output
    pc,               \* the position of compare_documents
    ai_calls,         \* how many times the aligner (_ai_compare) was invoked
    ai_reply,         \* what the aligner's model answered to that call
    ai_result,        \* what line 669-672 left in ai_result
    outcome,          \* "running", "returned" or "raised"
    result,           \* the returned dict (None until it returns)
    product_check,    \* a call of _check_product_match: its arguments and verdict
    schema_call,      \* a construction of ComparisonSchema: its fields and outcome
    retry_call,       \* a call of a function wrapped by a retry decorator
    frames,           \* the local variables of interleaved compare_documents calls
    unit_call,        \* a call of normalize_unit and of normalize_unit on its result
    param_call,       \* a call of _compare_single_param or _match_parameters_legacy
    audit             \* the audit log file and the log_result and log_error calls on it

\* the variables of one compare_documents call
compare_vars == <<spec_data, cert_data, cert_type, classification, pc, ai_calls,
                  ai_reply, ai_result, outcome, result>>

\* the variables of the programs modelled beside it
\* the variables of the helper calls and of the audit logger
helper_vars == <<unit_call, param_call, audit>>

other_vars == <<product_check, schema_call, retry_call, frames, helper_vars>>

vars == <<compare_vars, other_vars>>

---------------------------------------------------------------------------
(* Characters and Python's str methods *)

Digits == {"0", "1", "2", "3", "4", "5", "6", "7", "8", "9"}

LowerAlpha == <<"a", "b", "c", "d", "e", "f", "g", "h", "i", "j", "k", "l", "m",
                "n", "o", "p", "q", "r", "s", "t", "u", "v", "w", "x", "y", "z">>

UpperAlpha == <<"A", "B", "C", "D", "E", "F", "G", "H", "I", "J", "K", "L", "M",
                "N", "O", "P", "Q", "R", "S", "T", "U", "V", "W", "X", "Y", "Z">>

LowerSet == {LowerAlpha[i] : i \in 1..26}

UpperSet == {UpperAlpha[i] : i \in 1..26}

Whitespace == {" ", "\t"}

None == [none |-> TRUE]

LowerChar(c) ==
    IF c \in UpperSet
    THEN LowerAlpha[CHOOSE i \in 1..26 : UpperAlpha[i] = c]
    ELSE c

UpperChar(c) ==
    IF c \in LowerSet
    THEN UpperAlpha[CHOOSE i \in 1..26 : LowerAlpha[i] = c]
    ELSE c

\* str.lower()
Lower(s) == [i \in 1..Len(s) |-> LowerChar(s[i])]

\* str.upper()
Upper(s) == [i \in 1..Len(s) |-> UpperChar(s[i])]

RECURSIVE LStrip(_)
LStrip(s) ==
    IF s # <<>> /\ Head(s) \in Whitespace THEN LStrip(Tail(s)) ELSE s

RECURSIVE RStrip(_)
RStrip(s) ==
    IF s # <<>> /\ s[Len(s)] \in Whitespace
    THEN RStrip(SubSeq(s, 1, Len(s) - 1))
    ELSE s

\* str.strip()
Strip(s) == RStrip(LStrip(s))

\* the longest prefix of s made of characters of set cs
RECURSIVE TakeWhile(_, _)
TakeWhile(s, cs) ==
    IF s # <<>> /\ Head(s) \in cs
    THEN <<Head(s)>> \o TakeWhile(Tail(s), cs)
    ELSE <<>>

Drop(s, k) == SubSeq(s, k + 1, Len(s))

\* str.startswith
StartsWith(s, p) == Len(p) <= Len(s) /\ SubSeq(s, 1, Len(p)) = p

\* the characters of s that are not in cs, in order
RECURSIVE Without(_, _)
Without(s, cs) ==
    IF s = <<>> THEN <<>>
    ELSE IF Head(s) \in cs THEN Without(Tail(s), cs)
    ELSE <<Head(s)>> \o Without(Tail(s), cs)

\* dict.get(key, default)
Get(d, k, default) == IF k \in DOMAIN d THEN d[k] ELSE default

Min2(a, b) == IF a <= b THEN a ELSE b

RECURSIVE Pow10(_)
Pow10(k) == IF k = 0 THEN 1 ELSE 10 * Pow10(k - 1)

DigitVal(c) == CHOOSE v \in 0..9 : <<"0", "1", "2", "3", "4", "5", "6", "7", "8", "9">>[v + 1] = c

RECURSIVE DigitsToInt(_)
DigitsToInt(ds) ==
    IF ds = <<>> THEN 0
    ELSE 10 * DigitsToInt(SubSeq(ds, 1, Len(ds) - 1)) + DigitVal(ds[Len(ds)])

\* comparisons of floats
NumLt(a, b) == a.n * b.d < b.n * a.d

NumLe(a, b) == a.n * b.d <= b.n * a.d

---------------------------------------------------------------------------
(* src/core/unit_normalizer.py *)

UNIT_MAP ==
    { <<<<"%">>, <<"%">>>>, <<<<"%", " ", "w", "/", "w">>, <<"%">>>>,
      <<<<"%", " ", "w", "/", "v">>, <<"%", " ", "w", "/", "v">>>>,
      <<<<"%", "w", "/", "w">>, <<"%">>>>,
      <<<<"%", "w", "/", "v">>, <<"%", " ", "w", "/", "v">>>>,
      <<<<"p", "e", "r", "c", "e", "n", "t">>, <<"%">>>>,
      <<<<"w", "t", "%">>, <<"%">>>>, <<<<"w", "t", " ", "%">>, <<"%">>>>,
      <<<<"w", "e", "i", "g", "h", "t", " ", "%">>, <<"%">>>>,
      <<<<"w", "e", "i", "g", "h", "t", " ", "p", "e", "r", "c", "e", "n", "t">>, <<"%">>>>,
      <<<<"v", "o", "l", "%">>, <<"%", " ", "v", "/", "v">>>>,
      <<<<"v", "o", "l", " ", "%">>, <<"%", " ", "v", "/", "v">>>>,
      <<<<"%", " ", "v", "/", "v">>, <<"%", " ", "v", "/", "v">>>>,
      <<<<"p", "p", "m">>, <<"p", "p", "m">>>>,
      <<<<"m", "g", "/", "l">>, <<"p", "p", "m">>>>,
      <<<<"m", "g", "/", "k", "g">>, <<"p", "p", "m">>>>,
      <<<<"micro", "g", "/", "m", "l">>, <<"p", "p", "m">>>>,
      <<<<"u", "g", "/", "m", "l">>, <<"p", "p", "m">>>>,
      <<<<"p", "p", "b">>, <<"p", "p", "b">>>>,
      <<<<"micro", "g", "/", "l">>, <<"p", "p", "b">>>>,
      <<<<"u", "g", "/", "l">>, <<"p", "p", "b">>>>,
      <<<<"micro", "g", "/", "k", "g">>, <<"p", "p", "b">>>>,
      <<<<"g", "/", "l">>, <<"g", "/", "L">>>>,
      <<<<"g", "/", "m", "l">>, <<"g", "/", "m", "L">>>>,
      <<<<"m", "g", "/", "m", "l">>, <<"m", "g", "/", "m", "L">>>>,
      <<<<"p", "h">>, <<"p", "H">>>>,
      <<<<"p", "h", " ", "u", "n", "i", "t", "s">>, <<"p", "H">>>>,
      <<<<"g", "/", "c", "m", "3">>, <<"g", "/", "c", "m", "sup3">>>>,
      <<<<"g", "/", "c", "m", "sup3">>, <<"g", "/", "c", "m", "sup3">>>>,
      <<<<"g", "/", "c", "c">>, <<"g", "/", "c", "m", "sup3">>>>,
      <<<<"k", "g", "/", "l">>, <<"k", "g", "/", "L">>>>,
      <<<<"k", "g", "/", "m", "3">>, <<"k", "g", "/", "m", "sup3">>>>,
      <<<<"k", "g", "/", "m", "sup3">>, <<"k", "g", "/", "m", "sup3">>>>,
      <<<<"s", "g">>, <<"S", "G">>>>,
      <<<<"s", "p", "e", "c", "i", "f", "i", "c", " ", "g", "r", "a", "v", "i", "t", "y">>, <<"S", "G">>>>,
      <<<<"deg", "c">>, <<"deg", "C">>>>,
      <<<<"d", "e", "g", "c">>, <<"deg", "C">>>>,
      <<<<"d", "e", "g", " ", "c">>, <<"deg", "C">>>>,
      <<<<"c", "e", "l", "s", "i", "u", "s">>, <<"deg", "C">>>>,
      <<<<"deg", "f">>, <<"deg", "F">>>>,
      <<<<"n", "t", "u">>, <<"N", "T", "U">>>>,
      <<<<"h", "a", "z", "e", "n">>, <<"H", "a", "z", "e", "n">>>>,
      <<<<"a", "p", "h", "a">>, <<"A", "P", "H", "A">>>>,
      <<<<"m", "e", "q", "/", "l">>, <<"m", "e", "q", "/", "L">>>>,
      <<<<"m", "l">>, <<"m", "L">>>>, <<<<"l">>, <<"L">>>>,
      <<<<"m", "g">>, <<"m", "g">>>>, <<<<"g">>, <<"g">>>>,
      <<<<"k", "g">>, <<"k", "g">>>> }

CONVERSION_FACTORS ==
    { <<<<"m", "g", "/", "L">>, <<"p", "p", "m">>, [n |-> 1, d |-> 1]>>,
      <<<<"p", "p", "m">>, <<"m", "g", "/", "L">>, [n |-> 1, d |-> 1]>>,
      <<<<"m", "g", "/", "k", "g">>, <<"p", "p", "m">>, [n |-> 1, d |-> 1]>>,
      <<<<"p", "p", "m">>, <<"m", "g", "/", "k", "g">>, [n |-> 1, d |-> 1]>>,
      <<<<"micro", "g", "/", "L">>, <<"p", "p", "b">>, [n |-> 1, d |-> 1]>>,
      <<<<"p", "p", "b">>, <<"micro", "g", "/", "L">>, [n |-> 1, d |-> 1]>>,
      <<<<"g", "/", "L">>, <<"p", "p", "m">>, [n |-> 1000, d |-> 1]>>,
      <<<<"p", "p", "m">>, <<"g", "/", "L">>, [n |-> 1, d |-> 1000]>>,
      <<<<"p", "p", "b">>, <<"p", "p", "m">>, [n |-> 1, d |-> 1000]>>,
      <<<<"p", "p", "m">>, <<"p", "p", "b">>, [n |-> 1000, d |-> 1]>>,
      <<<<"g", "/", "c", "m", "sup3">>, <<"k", "g", "/", "L">>, [n |-> 1, d |-> 1]>>,
      <<<<"k", "g", "/", "L">>, <<"g", "/", "c", "m", "sup3">>, [n |-> 1, d |-> 1]>>,
      <<<<"m", "g", "/", "m", "L">>, <<"g", "/", "L">>, [n |-> 1, d |-> 1]>>,
      <<<<"g", "/", "L">>, <<"m", "g", "/", "m", "L">>, [n |-> 1, d |-> 1]>> }

\* UNIT_MAP.get(cleaned, default)
UnitMapGet(cleaned, default) ==
    IF \E e \in UNIT_MAP : e[1] = cleaned
    THEN (CHOOSE e \in UNIT_MAP : e[1] = cleaned)[2]
    ELSE default

\* lines 98-99, given unit.strip()
NormalizeStripped(stripped) == UnitMapGet(Lower(stripped), stripped)

\* normalize_unit looking up unit.lower() and stripping only the default
normalize_unit_strip_late(unit) ==
    IF unit = <<>> THEN <<>> ELSE UnitMapGet(Lower(unit), Strip(unit))

normalize_unit(unit) ==
    IF unit = <<>> THEN <<>> ELSE NormalizeStripped(Strip(unit))

HasFactor(a, b) == \E e \in CONVERSION_FACTORS : e[1] = a /\ e[2] = b

Factor(a, b) == (CHOOSE e \in CONVERSION_FACTORS : e[1] = a /\ e[2] = b)[3]

\* lines 164-168, on the canonical forms
Compatible(n1, n2) == n1 = n2 \/ HasFactor(n1, n2) \/ HasFactor(n2, n1)

are_units_compatible(unit1, unit2) ==
    Compatible(normalize_unit(unit1), normalize_unit(unit2))

\* lines 176-183, on the canonical forms: value * factor, or None
Converted(value, n_from, n_to) ==
    IF n_from = n_to THEN value
    ELSE IF HasFactor(n_from, n_to)
    THEN [n |-> value.n * Factor(n_from, n_to).n,
          d |-> value.d * Factor(n_from, n_to).d]
    ELSE None

convert_value(value, from_unit, to_unit) ==
    Converted(value, normalize_unit(from_unit), normalize_unit(to_unit))

NotDetectedWords ==
    { <<"N", "D">>,
      <<"N", ".", "D", ".">>,
      <<"B", "D", "L">>,
      <<"N", "O", "T", " ", "D", "E", "T", "E", "C", "T", "E", "D">>,
      <<"B", "E", "L", "O", "W", " ", "D", "E", "T", "E", "C", "T", "I", "O", "N", " ", "L", "I", "M", "I", "T">> }

NotApplicableWords ==
    { <<"N", "/", "A">>, <<"N", "A">>, <<"-">>, <<"emdash">>, <<>> }

\* the digits after the run, past one optional point
FractionOf(rest) ==
    TakeWhile(Drop(rest, IF rest # <<>> /\ Head(rest) = "." THEN 1 ELSE 0), Digits)

MatchFromRun(s, run) ==
    [matched |-> run # <<>>, whole |-> Without(run, {","}),
     frac |-> FractionOf(Drop(s, Len(run)))]

\* re.match(r'([\d,]+\.?\d*)', s): the digits of the group before and after
\* the point, commas removed
NumberMatch(s) == MatchFromRun(s, TakeWhile(s, Digits \cup {","}))

\* re.match(r'^[sym]\s*([\d,]+\.?\d*)', s)
QualifiedMatch(s, syms) ==
    IF s # <<>> /\ Head(s) \in syms
    THEN NumberMatch(LStrip(Tail(s)))
    ELSE [matched |-> FALSE, whole |-> <<>>, frac |-> <<>>]

\* float(match.group(1).replace(",", "")) with the qualifier; float() raises
\* ValueError on "" and on "."
FloatOf(m, qualifier) ==
    IF m.whole = <<>> /\ m.frac = <<>>
    THEN [raises |-> "ValueError", val |-> None, q |-> qualifier]
    ELSE [raises |-> "", val |-> [n |-> DigitsToInt(m.whole \o m.frac),
                                  d |-> Pow10(Len(m.frac))], q |-> qualifier]

Returns(val, qualifier) == [raises |-> "", val |-> val, q |-> qualifier]

\* lines 136-156: the first pattern that matches decides
ParseMatches(less, greater, approx, plain) ==
    IF less.matched THEN FloatOf(less, "less_than")
    ELSE IF greater.matched THEN FloatOf(greater, "greater_than")
    ELSE IF approx.matched THEN FloatOf(approx, "approximately")
    ELSE IF plain.matched THEN FloatOf(plain, "")
    ELSE Returns(None, "unparseable")

\* lines 124-156, given s = value_str.strip() and s.upper()
ParseStripped(s, upper) ==
    IF upper \in NotDetectedWords THEN Returns([n |-> 0, d |-> 1], "not_detected")
    ELSE IF upper \in NotApplicableWords THEN Returns(None, "not_applicable")
    ELSE IF \A i \in 1..Len(s) : s[i] \notin Digits THEN Returns(None, "qualitative")
    ELSE ParseMatches(QualifiedMatch(s, {"<", "le"}), QualifiedMatch(s, {">", "ge"}),
                      QualifiedMatch(s, {"~", "approx"}), NumberMatch(s))

ParseNonEmpty(s) == ParseStripped(s, Upper(s))

parse_value(value_str) ==
    IF value_str = <<>> THEN Returns(None, "empty")
    ELSE ParseNonEmpty(Strip(value_str))

\* re.sub(r'\s+', ' ', s): every run of whitespace becomes one space
RECURSIVE CollapseSpaces(_)
CollapseSpaces(s) ==
    IF s = <<>> THEN <<>>
    ELSE IF Head(s) \in Whitespace
    THEN <<" ">> \o CollapseSpaces(LStrip(s))
    ELSE <<Head(s)>> \o CollapseSpaces(Tail(s))

\* re.sub(r'[^a-z0-9\s]', '', s)
RECURSIVE KeepAlnumSpace(_)
KeepAlnumSpace(s) ==
    IF s = <<>> THEN <<>>
    ELSE IF Head(s) \in LowerSet \cup Digits \cup Whitespace
    THEN <<Head(s)>> \o KeepAlnumSpace(Tail(s))
    ELSE KeepAlnumSpace(Tail(s))

normalize_param_name(name) ==
    IF name = <<>> THEN <<>>
    ELSE Strip(CollapseSpaces(KeepAlnumSpace(Lower(Strip(name)))))

---------------------------------------------------------------------------
(* src/core/comparator.py: product identity *)

\* re.findall over a character class: the maximal runs of characters of cs
RECURSIVE Runs(_, _)
Runs(s, cs) ==
    IF s = <<>> THEN {}
    ELSE IF Head(s) \in cs
    THEN {TakeWhile(s, cs)} \cup Runs(Drop(s, Len(TakeWhile(s, cs))), cs)
    ELSE Runs(Tail(s), cs)

noise ==
    { <<"p", "r", "o", "d", "u", "c", "t">>,
      <<"s", "p", "e", "c", "i", "f", "i", "c", "a", "t", "i", "o", "n">>,
      <<"s", "p", "e", "c">>, <<"p", "r", "e", "m", "i", "u", "m">>,
      <<"g", "r", "a", "d", "e">>, <<"p", "r", "e", "m">>, <<"g", "r", "d">>,
      <<"i", "x", "o", "m">>,
      <<"c", "e", "r", "t", "i", "f", "i", "c", "a", "t", "e">>,
      <<"a", "n", "a", "l", "y", "s", "i", "s">>, <<"o", "f">>,
      <<"t", "h", "e">>, <<"f", "o", "r">>, <<"i", "n">>, <<"a", "n", "d">>,
      <<"a">>, <<"a", "n">>, <<"r", "e", "v">>,
      <<"r", "e", "v", "i", "s", "i", "o", "n">>,
      <<"a", "p", "p", "r", "o", "v", "e", "d">>, <<"b", "y">>,
      <<"d", "r", "u", "m", "s">>, <<"k", "g">>, <<"l">>, <<"m", "l">>,
      <<"i", "b", "c">>, <<"b", "u", "l", "k">>, <<"n", "o", "n">>,
      <<"r", "e", "t", "u", "r", "n", "a", "b", "l", "e">>,
      <<"f", "l", "v", "1", "0", "5", "9", "4">>, <<"f", "l", "v">> }

noise_long ==
    { <<"p", "r", "o", "d", "u", "c", "t">>,
      <<"s", "p", "e", "c", "i", "f", "i", "c", "a", "t", "i", "o", "n">>,
      <<"p", "r", "e", "m", "i", "u", "m">>, <<"g", "r", "a", "d", "e">>,
      <<"c", "e", "r", "t", "i", "f", "i", "c", "a", "t", "e">>,
      <<"a", "n", "a", "l", "y", "s", "i", "s">>,
      <<"a", "p", "p", "r", "o", "v", "e", "d">>, <<"i", "x", "o", "m">>,
      <<"r", "e", "v", "i", "s", "i", "o", "n">>,
      <<"d", "r", "u", "m", "s">>, <<"b", "u", "l", "k">>, <<"n", "o", "n">>,
      <<"r", "e", "t", "u", "r", "n", "a", "b", "l", "e">>,
      <<"l", "i", "q", "u", "i", "d">> }

CHEM_ALIASES ==
    { <<<<"a", "l", "u", "m">>, <<"a", "l", "u", "m", "i", "n", "i", "u", "m">>>>,
      <<<<"a", "l", "u", "m", "i", "n", "u", "m">>, <<"a", "l", "u", "m", "i", "n", "i", "u", "m">>>>,
      <<<<"h", "y", "p", "o">>, <<"h", "y", "p", "o", "c", "h", "l", "o", "r", "i", "t", "e">>>>,
      <<<<"c", "a", "u", "s", "t", "i", "c">>, <<"h", "y", "d", "r", "o", "x", "i", "d", "e">>>>,
      <<<<"s", "o", "d", "a">>, <<"s", "o", "d", "i", "u", "m">>>>,
      <<<<"h", "c", "l">>, <<"h", "y", "d", "r", "o", "c", "h", "l", "o", "r", "i", "c">>>>,
      <<<<"n", "a", "o", "h">>, <<"h", "y", "d", "r", "o", "x", "i", "d", "e">>>>,
      <<<<"a", "m", "m", "o", "n", "i", "a">>, <<"a", "m", "m", "o", "n", "i", "a">>>>,
      <<<<"a", "q", "u", "e", "o", "u", "s">>, <<"a", "q", "u", "a">>>>,
      <<<<"s", "u", "l", "p", "h", "a", "t", "e">>, <<"s", "u", "l", "f", "a", "t", "e">>>>,
      <<<<"s", "u", "l", "p", "h", "u", "r", "i", "c">>, <<"s", "u", "l", "f", "u", "r", "i", "c">>>>,
      <<<<"f", "e", "r", "r", "i", "c">>, <<"i", "r", "o", "n">>>>,
      <<<<"p", "a", "c">>, <<"a", "l", "u", "m", "i", "n", "i", "u", "m">>>>,
      <<<<"n", "a", "c", "l", "o">>, <<"h", "y", "p", "o", "c", "h", "l", "o", "r", "i", "t", "e">>>> }


\* lines 40-46, given name.lower()
TokensOfLower(lowered) == (Runs(lowered, LowerSet) \ noise) \cup Runs(lowered, Digits)

_normalize_product_tokens(name) ==
    IF name = <<>> THEN {} ELSE TokensOfLower(Lower(name))

_expand_tokens(tokens) ==
    tokens
    \cup {e[2] : e \in {a \in CHEM_ALIASES : a[1] \in tokens}}
    \cup {e[1] : e \in {a \in CHEM_ALIASES : a[2] \in tokens}}

\* the test of lines 109-110 and 145-146 on one pair of tokens
PrefixRelated(a, b) ==
    Len(a) >= 3 /\ Len(b) >= 3 /\ (StartsWith(a, b) \/ StartsWith(b, a))

\* re.findall(r'[a-z]{3,}', s.lower()) less noise_long
LongWords(product) == {w \in Runs(Lower(product), LowerSet) : Len(w) >= 3} \ noise_long

Verdict(is_match, confidence, reason) ==
    [is_match |-> is_match, confidence |-> confidence, reason |-> reason]

\* the decisions of lines 101-157 over the sets computed before them
ProductVerdict(spec_product, cert_product, spec_tokens, cert_tokens, direct_overlap, num_overlap, spec_words, cert_words, word_overlap) ==
    IF direct_overlap # {}
    THEN Verdict(TRUE, [n |-> 8, d |-> 10], <<"Token match: ", "<tokens>">>)
    ELSE IF \E st \in spec_tokens, ct \in cert_tokens : PrefixRelated(st, ct)
    THEN Verdict(TRUE, [n |-> 7, d |-> 10], <<"Substring match: ", "<tokens>">>)
    \* overlap_ratio >= 0.1 with overlap_ratio = len(token_common) / len(total)
    ELSE IF num_overlap # {} /\ spec_tokens \cup cert_tokens # {}
            /\ 10 * Cardinality(spec_tokens \cap cert_tokens)
                   >= Cardinality(spec_tokens \cup cert_tokens)
    THEN Verdict(TRUE, [n |-> 6, d |-> 10], <<"Number overlap: ", "<numbers>">>)
    ELSE IF word_overlap # {}
    THEN Verdict(TRUE, [n |-> 7, d |-> 10], <<"Expanded word match: ", "<words>">>)
    ELSE IF \E sw \in spec_words, cw \in cert_words : PrefixRelated(sw, cw)
    THEN Verdict(TRUE, [n |-> 6, d |-> 10], <<"Word substring: ", "<words>">>)
    ELSE IF word_overlap = {} /\ num_overlap = {} /\ direct_overlap = {}
    THEN Verdict(FALSE, [n |-> 1, d |-> 10],
                 <<"PRODUCT MISMATCH: Specification is for '">> \o spec_product
                 \o <<"' but certificate is for '">> \o cert_product \o <<"'">>)
    ELSE Verdict(TRUE, [n |-> 4, d |-> 10], <<"Uncertain match ", "emdash", " AI will verify">>)

\* lines 124-131: the long words of both names and their expanded overlap
WordChecks(spec_product, cert_product, spec_tokens, cert_tokens, direct_overlap, num_overlap, spec_words, cert_words) ==
    ProductVerdict(spec_product, cert_product, spec_tokens, cert_tokens, direct_overlap,
                   num_overlap, spec_words, cert_words,
                   _expand_tokens(spec_words) \cap _expand_tokens(cert_words))

\* lines 92-118: the guard on empty token sets, then the overlaps
TokenChecks(spec_product, cert_product, spec_tokens, cert_tokens) ==
    IF spec_tokens = {} \/ cert_tokens = {}
    THEN Verdict(TRUE, [n |-> 5, d |-> 10], <<"Cannot verify ", "emdash", " insufficient product info">>)
    ELSE WordChecks(spec_product, cert_product, spec_tokens, cert_tokens,
                    _expand_tokens(spec_tokens) \cap _expand_tokens(cert_tokens),
                    Runs(spec_product, Digits) \cap Runs(cert_product, Digits),
                    LongWords(spec_product), LongWords(cert_product))

_check_product_match(spec_product, cert_product) ==
    IF spec_product = <<>> \/ cert_product = <<>>
    THEN Verdict(TRUE, [n |-> 5, d |-> 10], <<"Cannot verify ", "emdash", " product name missing">>)
    ELSE TokenChecks(spec_product, cert_product,
                     _normalize_product_tokens(spec_product),
                     _normalize_product_tokens(cert_product))

---------------------------------------------------------------------------
(* src/core/comparator.py: the deterministic comparison of one parameter *)

\* how an f-string prints a float
FloatText(x) == <<ToString(x.n), "/", ToString(x.d)>>

\* what a callee hands back: a value, or the exception it raised
Ok(v) == [raises |-> "", v |-> v]

Raise(e) == [raises |-> e, v |-> None]

\* the result dict of lines 382-392
BaseDetail(spec_param, cert_param) ==
    [parameter |-> Strip(Get(spec_param, "name", <<>>)),
     spec_value |-> Get(spec_param, "value", <<>>),
     spec_min |-> Get(spec_param, "min_limit", <<>>),
     spec_max |-> Get(spec_param, "max_limit", <<>>),
     spec_unit |-> Get(spec_param, "unit", <<>>),
     cert_value |-> Get(cert_param, "value", <<>>),
     cert_unit |-> Get(cert_param, "unit", <<>>),
     status |-> "PASS", reason |-> <<>>]

\* result["status"] = st; result["reason"] = rs
With(res, st, rs) == [res EXCEPT !.status = st, !.reason = rs]

\* the try block of lines 443-468 (its except clause turns ValueError and
\* TypeError into REVIEW)
BoundCheck(res, parsed, actual_value, min_p, max_p) ==
    IF res.spec_min # <<>> /\ min_p.raises # ""
    THEN With(res, "REVIEW", <<"Comparison error: ", min_p.raises>>)
    ELSE IF res.spec_min # <<>> /\ min_p.val # None /\ NumLt(actual_value, min_p.val)
    THEN With(res, "FAIL", res.parameter \o <<": ">> \o FloatText(actual_value)
                           \o <<" below minimum ">> \o FloatText(min_p.val))
    ELSE IF res.spec_max # <<>> /\ max_p.raises # ""
    THEN With(res, "REVIEW", <<"Comparison error: ", max_p.raises>>)
    ELSE IF res.spec_max # <<>> /\ max_p.val # None /\ NumLt(max_p.val, actual_value)
    THEN With(res, "FAIL", res.parameter \o <<": ">> \o FloatText(actual_value)
                           \o <<" exceeds maximum ">> \o FloatText(max_p.val))
    ELSE IF parsed.q = "less_than" /\ res.spec_max # <<>>
            /\ max_p.val # None /\ NumLe(parsed.val, max_p.val)
    THEN With(res, "PASS", <<"Value <">> \o FloatText(parsed.val)
                           \o <<" within max limit ">> \o FloatText(max_p.val))
    ELSE res

\* lines 428-441: unit reconciliation, then the bounds
Reconcile(res, parsed, differ, compatible, converted) ==
    IF differ /\ ~compatible
    THEN With(res, "REVIEW", <<"Incompatible units: spec=">> \o res.spec_unit
                             \o <<", cert=">> \o res.cert_unit)
    ELSE IF differ /\ converted = None
    THEN With(res, "REVIEW", <<"Unit conversion failed: ">> \o res.cert_unit
                             \o <<" ", "arrow", " ">> \o res.spec_unit)
    ELSE BoundCheck(res, parsed, IF differ THEN converted ELSE parsed.val,
                    parse_value(res.spec_min), parse_value(res.spec_max))

\* line 430: both units given and their canonical forms differ
UnitsDiffer(spec_unit, cert_unit) ==
    spec_unit # <<>> /\ cert_unit # <<>>
    /\ normalize_unit(spec_unit) # normalize_unit(cert_unit)

\* lines 398-407: a certificate value without digits
Qualitative(res, spec_val_norm, cert_val_norm) ==
    IF res.spec_min # <<>> \/ res.spec_max # <<>>
    THEN With(res, "REVIEW", <<"Qualitative cert value '">> \o res.cert_value
                             \o <<"' vs numeric spec limits">>)
    ELSE IF spec_val_norm # <<>> /\ cert_val_norm # <<>> /\ spec_val_norm # cert_val_norm
    THEN With(res, "REVIEW", <<"Qualitative mismatch: spec='">> \o res.spec_value
                             \o <<"' vs cert='">> \o res.cert_value \o <<"'">>)
    ELSE res

\* lines 397-441 by the qualifier parse_value returned; parse_value is called
\* at line 395, outside the try block, so what it raises leaves the function
ByQualifier(res, parsed) ==
    IF parsed.raises # "" THEN Raise(parsed.raises)
    ELSE IF parsed.q = "qualitative"
    THEN Ok(Qualitative(res, normalize_param_name(res.spec_value),
                        normalize_param_name(res.cert_value)))
    ELSE IF parsed.q = "not_detected"
    THEN IF res.spec_max # <<>>
         THEN Ok(With(res, "PASS", <<"Not detected ", "emdash", " within max limit">>))
         ELSE Ok(With(res, "REVIEW", <<"Not detected ", "emdash", " no spec limit to validate against">>))
    ELSE IF parsed.val = None
    THEN Ok(With(res, "REVIEW", <<"Cannot parse certificate value: '">> \o res.cert_value
                                \o <<"'">>))
    ELSE IF res.spec_min = <<>> /\ res.spec_max = <<>>
    THEN Ok(With(res, "REVIEW", <<"No numeric spec limits to compare against">>))
    ELSE Ok(Reconcile(res, parsed, UnitsDiffer(res.spec_unit, res.cert_unit),
                      are_units_compatible(res.spec_unit, res.cert_unit),
                      convert_value(parsed.val, res.cert_unit, res.spec_unit)))

_compare_single_param(spec_param, cert_param) ==
    ByQualifier(BaseDetail(spec_param, cert_param),
                parse_value(Get(cert_param, "value", <<>>)))

---------------------------------------------------------------------------
(* src/core/comparator.py: the name-based fallback *)

\* cert_by_name / cert_by_norm as built by the loop of lines 347-349: a later
\* certificate parameter overwrites an earlier one under the same key.  The
\* last position of keys that holds k, 0 when none does
LastWithKey(keys, k) ==
    IF \A i \in 1..Len(keys) : keys[i] # k THEN 0
    ELSE CHOOSE i \in 1..Len(keys) :
            keys[i] = k /\ \A j \in (i + 1)..Len(keys) : keys[j] # k

\* the keys of cert_by_name, one per certificate parameter
ExactKeys(cert_params) ==
    [i \in 1..Len(cert_params) |-> Strip(Get(cert_params[i], "name", <<>>))]

\* the keys of cert_by_norm, one per certificate parameter
NormKeys(cert_params) ==
    [i \in 1..Len(cert_params) |-> normalize_param_name(Get(cert_params[i], "name", <<>>))]

\* dict.get: the parameter at position i, None for position 0
EntryAt(cert_params, i) == IF i = 0 THEN None ELSE cert_params[i]

\* first or second
OrElse(first, second) == IF first # None THEN first ELSE second

\* cert_by_name.get(spec_name) or cert_by_norm.get(spec_norm)
LookupCert(cert_params, spec_name) ==
    OrElse(EntryAt(cert_params, LastWithKey(ExactKeys(cert_params), spec_name)),
           EntryAt(cert_params, LastWithKey(NormKeys(cert_params),
                                            normalize_param_name(spec_name))))

MissingDetail(spec_param) ==
    [parameter |-> Strip(Get(spec_param, "name", <<>>)),
     spec_value |-> Get(spec_param, "value", <<>>),
     spec_min |-> Get(spec_param, "min_limit", <<>>),
     spec_max |-> Get(spec_param, "max_limit", <<>>),
     cert_value |-> <<>>,
     cert_unit |-> <<>>,
     status |-> "REVIEW",
     reason |-> <<"Missing parameter in certificate: ">>
                \o Strip(Get(spec_param, "name", <<>>))]

\* lines 358-368: the entry for one specification parameter
OneResult(spec_param, cert_param) ==
    IF cert_param = None
    THEN Ok(MissingDetail(spec_param))
    ELSE _compare_single_param(spec_param, cert_param)

\* results.append: an exception of either part ends the loop
Prepend(one, rest) ==
    IF one.raises # "" THEN Raise(one.raises)
    ELSE IF rest.raises # "" THEN Raise(rest.raises)
    ELSE Ok(<<one.v>> \o rest.v)

\* the results list, or the exception that ended the loop
RECURSIVE _match_parameters_legacy(_, _)
_match_parameters_legacy(spec_params, cert_params) ==
    IF spec_params = <<>> THEN Ok(<<>>)
    ELSE Prepend(OneResult(Head(spec_params),
                           LookupCert(cert_params,
                                      Strip(Get(Head(spec_params), "name", <<>>)))),
                 _match_parameters_legacy(Tail(spec_params), cert_params))

---------------------------------------------------------------------------
(* Python values that cross the aligner boundary.  What json.loads returns   *)
(* is a str, a float, a bool, None, a list or a dict; each carries its type. *)

Str(s) == [str |-> s]

Bool(b) == [bool |-> b]

List(items) == [list |-> items]

Obj(d) == [obj |-> d]

IsStr(v) == DOMAIN v = {"str"}

IsNum(v) == DOMAIN v = {"n", "d"}

IsList(v) == DOMAIN v = {"list"}

IsObj(v) == DOMAIN v = {"obj"}

\* bool(v)
Truthy(v) ==
    IF v = None THEN FALSE
    ELSE IF IsStr(v) THEN v.str # <<>>
    ELSE IF IsList(v) THEN v.list # <<>>
    ELSE IF IsObj(v) THEN DOMAIN v.obj # {}
    ELSE IF IsNum(v) THEN v.n # 0
    ELSE v.bool

\* float(s) for a stripped str s holding an unsigned decimal; any other
\* text (empty, a lone point, commas, letters) is a ValueError
FloatOfStr(s, m) ==
    IF m.matched /\ m.whole \o m.frac # <<>>
       /\ (\A i \in 1..Len(s) : s[i] \in Digits \cup {"."})
       /\ Len(m.whole) + Len(m.frac) + Cardinality({i \in 1..Len(s) : s[i] = "."}) = Len(s)
    THEN Ok([n |-> DigitsToInt(m.whole \o m.frac), d |-> Pow10(Len(m.frac))])
    ELSE Raise("ValueError")

FloatOfStripped(s) == FloatOfStr(s, NumberMatch(s))

\* float(v): a float as it is, a str parsed, a bool as 0 or 1, anything else
\* a TypeError
float(v) ==
    IF IsNum(v) THEN Ok(v)
    ELSE IF IsStr(v) THEN FloatOfStripped(Strip(v.str))
    ELSE IF v = None \/ IsList(v) \/ IsObj(v) THEN Raise("TypeError")
    ELSE Ok([n |-> IF v.bool THEN 1 ELSE 0, d |-> 1])

\* head + ', ' + the joined rest
JoinWith(head, rest) ==
    IF rest.raises # "" THEN rest ELSE Ok(head \o <<", ">> \o rest.v)

\* ', '.join(names): a TypeError unless every item is a str
RECURSIVE join(_)
join(names) ==
    IF names = <<>> THEN Ok(<<>>)
    ELSE IF ~IsStr(Head(names)) THEN Raise("TypeError")
    ELSE IF Len(names) = 1 THEN Ok(Head(names).str)
    ELSE JoinWith(Head(names).str, join(Tail(names)))

\* the fields of a detail that the fallback fills with str
AsStrFields(d) == [k \in DOMAIN d |-> IF k = "status" THEN d[k] ELSE Str(d[k])]

---------------------------------------------------------------------------
(* src/core/comparator.py: compare_documents *)

valid_cert_types ==
    { <<"C", "O", "A">>, <<"C", "O", "C", "A">>, <<"C", "O", "C">>,
      <<"P", "R", "O", "D", "U", "C", "T", "_", "S", "P", "E", "C", "I", "F", "I",
        "C", "A", "T", "I", "O", "N">> }

ComplianceKinds == {"COCA", "COC"}

ReasonCut == 150

\* line 518: the detected type when the gate rejects it, else <<>>
RejectedIfInvalid(detected_type) ==
    IF detected_type # <<>> /\ detected_type \notin valid_cert_types
    THEN detected_type
    ELSE <<>>

\* lines 515-518
RejectedType(cls) ==
    IF cls = None \/ DOMAIN cls = {} THEN <<>>
    ELSE RejectedIfInvalid(Upper(Get(cls, "document_type", <<>>)))

Params(data) == Get(data, "parameters", <<>>)

\* lines 519-535
InvalidTypeResult(spec, cert, ctype, detected_type) ==
    [status |-> "FAIL",
     reason |-> Str(<<"Invalid document type: '">> \o detected_type
                    \o <<"' ", "emdash", " expected a certificate (COA/COCA/COC)">>),
     cert_type |-> ctype,
     product_name |-> Get(spec, "product_name", <<>>),
     batch_number |-> Get(cert, "batch_number", <<>>),
     document_type_valid |-> FALSE,
     total_params_in_spec |-> Len(Params(spec)),
     parameters_checked |-> 0,
     parameters_passed |-> 0,
     parameters_failed |-> 0,
     parameters_missing |-> 0,
     parameters_review |-> 0,
     integrity_check |-> FALSE,
     comparison_skipped |-> TRUE,
     details |-> <<>>]

\* MismatchResult reporting the specification's parameters as checked;
\* ProductMismatchIsTerminal tells the two apart
MismatchResult_counted(spec, cert, ctype, reason) ==
    [status |-> "FAIL",
     reason |-> reason,
     cert_type |-> ctype,
     product_name |-> Get(spec, "product_name", <<>>),
     cert_product_name |-> Get(cert, "product_name", <<>>),
     batch_number |-> Get(cert, "batch_number", <<>>),
     product_mismatch |-> TRUE,
     document_type_valid |-> TRUE,
     total_params_in_spec |-> Len(Params(spec)),
     parameters_checked |-> Len(Params(spec)),
     parameters_passed |-> 0,
     parameters_failed |-> 0,
     parameters_missing |-> 0,
     parameters_review |-> 0,
     integrity_check |-> FALSE,
     comparison_skipped |-> TRUE,
     details |-> <<>>]

\* lines 547-565 and 677-696
MismatchResult(spec, cert, ctype, reason) ==
    [status |-> "FAIL",
     reason |-> reason,
     cert_type |-> ctype,
     product_name |-> Get(spec, "product_name", <<>>),
     cert_product_name |-> Get(cert, "product_name", <<>>),
     batch_number |-> Get(cert, "batch_number", <<>>),
     product_mismatch |-> TRUE,
     document_type_valid |-> TRUE,
     total_params_in_spec |-> Len(Params(spec)),
     parameters_checked |-> 0,
     parameters_passed |-> 0,
     parameters_failed |-> 0,
     parameters_missing |-> 0,
     parameters_review |-> 0,
     integrity_check |-> FALSE,
     comparison_skipped |-> TRUE,
     details |-> <<>>]

\* lines 573-589
EmptySpecResult(spec, cert, ctype) ==
    [status |-> "FAIL",
     reason |-> Str(<<"INVALID SPECIFICATION: No parameters found in the specification document. Cannot validate certificate without a valid specification.">>),
     cert_type |-> ctype,
     product_name |-> Get(spec, "product_name", <<>>),
     batch_number |-> Get(cert, "batch_number", <<>>),
     document_type_valid |-> TRUE,
     total_params_in_spec |-> 0,
     parameters_checked |-> 0,
     parameters_passed |-> 0,
     parameters_failed |-> 0,
     parameters_missing |-> 0,
     parameters_review |-> 0,
     integrity_check |-> FALSE,
     comparison_skipped |-> TRUE,
     details |-> <<>>]

\* cert_product or spec_product
CertOrSpecProduct(spec, cert) ==
    IF Get(cert, "product_name", <<>>) # <<>>
    THEN Get(cert, "product_name", <<>>)
    ELSE Get(spec, "product_name", <<>>)

\* lines 610-623
ComplianceOnlyDetail(p) ==
    [parameter |-> Str(Get(p, "name", <<>>)),
     cert_parameter |-> Str(<<>>),
     spec_value |-> Str(Get(p, "value", <<>>)),
     spec_min |-> Str(Get(p, "min_limit", <<>>)),
     spec_max |-> Str(Get(p, "max_limit", <<>>)),
     spec_unit |-> Str(Get(p, "unit", <<>>)),
     cert_value |-> Str(<<>>),
     cert_unit |-> Str(<<>>),
     status |-> "MISSING",
     confidence |-> [n |-> 9, d |-> 10],
     reason |-> Str(<<"No test data in certificate ", "emdash", " only compliance statement present">>)]

\* lines 594-625
ComplianceOnlyResult(spec, cert, ctype) ==
    LET compliance == Get(cert, "compliance_statement", <<>>) IN
    [status |-> "REVIEW",
     reason |-> Str(<<"Compliance statement present but no test data to compare parameter-by-parameter: ">>
                    \o SubSeq(compliance, 1, Min2(ReasonCut, Len(compliance)))),
     cert_type |-> ctype,
     product_name |-> CertOrSpecProduct(spec, cert),
     batch_number |-> Get(cert, "batch_number", <<>>),
     compliance_statement |-> Str(compliance),
     document_type_valid |-> TRUE,
     total_params_in_spec |-> Len(Params(spec)),
     parameters_checked |-> Len(Params(spec)),
     parameters_passed |-> 0,
     parameters_failed |-> 0,
     parameters_missing |-> Len(Params(spec)),
     parameters_review |-> 0,
     integrity_check |-> TRUE,
     details |-> [i \in 1..Len(Params(spec)) |-> ComplianceOnlyDetail(Params(spec)[i])]]

\* lines 627-642 and 646-661
NoTestDataResult(spec, cert, ctype, reason) ==
    [status |-> "REVIEW",
     reason |-> Str(reason),
     cert_type |-> ctype,
     product_name |-> CertOrSpecProduct(spec, cert),
     batch_number |-> Get(cert, "batch_number", <<>>),
     document_type_valid |-> TRUE,
     total_params_in_spec |-> Len(Params(spec)),
     parameters_checked |-> 0,
     parameters_passed |-> 0,
     parameters_failed |-> 0,
     parameters_missing |-> 0,
     parameters_review |-> 1,
     integrity_check |-> FALSE,
     details |-> <<>>]

\* the gate without the compliance-statement branch
CertGateResult_without_details(spec, cert, ctype) ==
    IF ctype \in ComplianceKinds /\ Params(cert) = <<>>
    THEN NoTestDataResult(spec, cert, ctype,
             <<"No compliance statement and no test data found in certificate">>)
    ELSE IF ctype = "COA" /\ Params(cert) = <<>>
    THEN NoTestDataResult(spec, cert, ctype, <<"No parameters found in certificate">>)
    ELSE None

\* lines 591-661: the certificate-completeness gate; None when it lets the
\* comparison through
CertGateResult(spec, cert, ctype) ==
    IF ctype \in ComplianceKinds /\ Params(cert) = <<>>
    THEN IF Get(cert, "compliance_statement", <<>>) # <<>>
         THEN ComplianceOnlyResult(spec, cert, ctype)
         ELSE NoTestDataResult(spec, cert, ctype,
                  <<"No compliance statement and no test data found in certificate">>)
    ELSE IF ctype = "COA" /\ Params(cert) = <<>>
    THEN NoTestDataResult(spec, cert, ctype, <<"No parameters found in certificate">>)
    ELSE None

\* result_text[:200]
ErrorCut == 200

\* lines 289-335: what _ai_compare hands back for a reply of the aligner.  A
\* reply is an exception of the chat-completion call (its retries spent), or
\* the text of the message: text that json.loads rejects, or a JSON value.
_ai_compare(reply) ==
    IF reply.raises # "" THEN Raise(reply.raises)
    ELSE IF ~reply.is_json
    THEN Ok(Obj([product_match |-> Bool(TRUE), parameters |-> List(<<>>),
                 error |-> Str(SubSeq(reply.text, 1, Min2(ErrorCut, Len(reply.text))))]))
    ELSE Ok(reply.value)

\* the mapping with an unknown status taken for a pass
StatusOf_unknown_passes(p) ==
    LET raw_status == Get(p, "status", Str(<<"R", "E", "V", "I", "E", "W">>))
    IN  IF raw_status = Str(<<"N", "O", "T", "_", "I", "N", "_", "C", "E", "R", "T">>) THEN "MISSING"
        ELSE IF raw_status = Str(<<"P", "A", "S", "S">>) THEN "PASS"
        ELSE IF raw_status = Str(<<"F", "A", "I", "L">>) THEN "FAIL"
        ELSE IF raw_status = Str(<<"R", "E", "V", "I", "E", "W">>) THEN "REVIEW"
        ELSE IF raw_status = Str(<<"M", "I", "S", "S", "I", "N", "G">>) THEN "MISSING"
        ELSE "PASS"

\* lines 702-707
StatusOf(p) ==
    LET raw_status == Get(p, "status", Str(<<"R", "E", "V", "I", "E", "W">>))
    IN  IF raw_status = Str(<<"N", "O", "T", "_", "I", "N", "_", "C", "E", "R", "T">>) THEN "MISSING"
        ELSE IF raw_status = Str(<<"P", "A", "S", "S">>) THEN "PASS"
        ELSE IF raw_status = Str(<<"F", "A", "I", "L">>) THEN "FAIL"
        ELSE IF raw_status = Str(<<"R", "E", "V", "I", "E", "W">>) THEN "REVIEW"
        ELSE IF raw_status = Str(<<"M", "I", "S", "S", "I", "N", "G">>) THEN "MISSING"
        ELSE "REVIEW"

\* lines 709-721, for an entry that is a dict, given float(confidence)
AiDetailWith(p, confidence) ==
    [parameter |-> Get(p, "spec_parameter", Str(<<>>)),
     cert_parameter |-> Get(p, "cert_parameter", Str(<<>>)),
     spec_value |-> Get(p, "spec_value", Str(<<>>)),
     spec_min |-> Get(p, "spec_min", Str(<<>>)),
     spec_max |-> Get(p, "spec_max", Str(<<>>)),
     spec_unit |-> Get(p, "spec_unit", Str(<<>>)),
     cert_value |-> Get(p, "cert_value", Str(<<>>)),
     cert_unit |-> Get(p, "cert_unit", Str(<<>>)),
     status |-> StatusOf(p),
     confidence |-> confidence,
     reason |-> Get(p, "reason", Str(<<>>))]

\* line 719: what float() raises leaves the loop
AiEntry(p, confidence) ==
    IF confidence.raises # "" THEN Raise(confidence.raises)
    ELSE Ok(AiDetailWith(p, confidence.v))

AiDetail(p) == AiEntry(p, float(Get(p, "confidence", [n |-> 8, d |-> 10])))

\* p.get on an entry that is no dict is an AttributeError
AiItem(item) == IF ~IsObj(item) THEN Raise("AttributeError") ELSE AiDetail(item.obj)

\* lines 699-721: the loop over a list
RECURSIVE AiDetails(_)
AiDetails(items) ==
    IF items = <<>> THEN Ok(<<>>)
    ELSE Prepend(AiItem(Head(items)), AiDetails(Tail(items)))

\* for p in ai_result["parameters"] over a truthy value: a list gives its
\* items, a str its characters and a dict its keys (p.get then fails), a
\* number is not iterable
DetailsFromAi(parameters) ==
    IF IsList(parameters) THEN AiDetails(parameters.list)
    ELSE IF IsStr(parameters) \/ IsObj(parameters) THEN Raise("AttributeError")
    ELSE Raise("TypeError")

\* s contains sub
Contains(s, sub) ==
    \E i \in 0..(Len(s) - Len(sub)) : SubSeq(s, i + 1, i + Len(sub)) = sub

\* "Missing parameter" in reason: in the one literal that holds it, or in the
\* text the reason quotes
MentionsMissing(reason) ==
    \/ \E i \in 1..Len(reason) : reason[i] = "Missing parameter in certificate: "
    \/ Contains(reason, <<"M", "i", "s", "s", "i", "n", "g", " ", "p", "a", "r", "a", "m", "e", "t", "e", "r">>)

\* lines 727-733
WithConfidence(d) ==
    [k \in DOMAIN d \cup {"confidence"} |->
        IF k = "status"
        THEN IF d.status = "REVIEW" /\ MentionsMissing(Get(d, "reason", Str(<<>>)).str)
             THEN "MISSING"
             ELSE d.status
        ELSE IF k = "confidence" THEN Get(d, "confidence", [n |-> 7, d |-> 10])
        ELSE d[k]]

\* the loop of lines 727-733 over what the legacy matcher returned
Mapped(matched) ==
    IF matched.raises # "" THEN Raise(matched.raises)
    ELSE Ok([i \in 1..Len(matched.v) |-> WithConfidence(AsStrFields(matched.v[i]))])

\* lines 725-733
LegacyDetails(spec, cert) ==
    Mapped(_match_parameters_legacy(Params(spec), Params(cert)))

\* sum(1 for d in details if d["status"] == status)
CountStatus(details, status) ==
    Cardinality({i \in 1..Len(details) : details[i].status = status})

\* [d["parameter"] for d in details if d["status"] == status]
RECURSIVE ParamsWithStatus(_, _)
ParamsWithStatus(details, status) ==
    IF details = <<>> THEN <<>>
    ELSE IF Head(details).status = status
    THEN <<Head(details).parameter>> \o ParamsWithStatus(Tail(details), status)
    ELSE ParamsWithStatus(Tail(details), status)

\* overall_status with the missing test ahead of the failure test;
\* VerdictPrecedence tells the two apart
overall_status_missing_first(fail_count, missing_count, review_count) ==
    IF missing_count > 0 THEN "REVIEW"
    ELSE IF fail_count > 0 THEN "FAIL"
    ELSE IF review_count > 0 THEN "REVIEW"
    ELSE "PASS"

\* lines 763-784: the overall status
overall_status(fail_count, missing_count, review_count) ==
    IF fail_count > 0 THEN "FAIL"
    ELSE IF missing_count > 0 THEN "REVIEW"
    ELSE IF review_count > 0 THEN "REVIEW"
    ELSE "PASS"

\* lines 763-784: the detail status whose parameters the reason lists
ListedStatus(fail_count, missing_count, review_count) ==
    IF fail_count > 0 THEN "FAIL"
    ELSE IF missing_count > 0 THEN "MISSING"
    ELSE IF review_count > 0 THEN "REVIEW"
    ELSE "PASS"

\* lines 763-784: the overall reason, given the joined names
overall_reason(fail_count, missing_count, review_count, names) ==
    IF fail_count > 0
    THEN <<ToString(fail_count), " parameter(s) failed: ">> \o names
    ELSE IF missing_count > 0
    THEN <<"All tested parameters passed but ", ToString(missing_count),
           " parameter(s) missing from certificate: ">> \o names
    ELSE IF review_count > 0
    THEN <<"No failures but ", ToString(review_count),
           " parameter(s) need human review: ">> \o names
    ELSE <<"All parameters accounted for and within specification">>

\* lines 787-791
IntegrityWarning(total_checked, total_params_in_spec) ==
    <<" [INTEGRITY WARNING: Checked ", ToString(total_checked),
      " parameters but spec has ", ToString(total_params_in_spec), "]">>

\* integrity_ok with <= for ==; IntegritySound tells the two apart
integrity_ok_at_most(total_checked, total_params_in_spec) ==
    total_checked <= total_params_in_spec

\* line 752
integrity_ok(total_checked, total_params_in_spec) == total_checked = total_params_in_spec

\* lines 793-809
ResultDict(spec, cert, ctype, details, pass_count, fail_count, missing_count, review_count, total_checked, reason) ==
    [status |-> overall_status(fail_count, missing_count, review_count),
     reason |-> Str(IF integrity_ok(total_checked, Len(Params(spec))) THEN reason
                    ELSE reason \o IntegrityWarning(total_checked, Len(Params(spec)))),
     cert_type |-> ctype,
     product_name |-> IF Get(spec, "product_name", <<>>) # <<>>
                      THEN Get(spec, "product_name", <<>>)
                      ELSE Get(cert, "product_name", <<>>),
     cert_product_name |-> Get(cert, "product_name", <<>>),
     batch_number |-> Get(cert, "batch_number", <<>>),
     document_type_valid |-> TRUE,
     total_params_in_spec |-> Len(Params(spec)),
     parameters_checked |-> total_checked,
     parameters_passed |-> pass_count,
     parameters_failed |-> fail_count,
     parameters_missing |-> missing_count,
     parameters_review |-> review_count,
     integrity_check |-> integrity_ok(total_checked, Len(Params(spec))),
     details |-> details]

\* lines 811-815: the compliance statement of a COCA/COC result
WithCompliance(res, ctype, ai_compliance) ==
    IF ctype \in ComplianceKinds /\ Truthy(ai_compliance)
    THEN res @@ [compliance_statement |-> ai_compliance]
    ELSE res

\* lines 763-815, given the join of the listed names (a TypeError when a
\* name is no str)
Report(spec, cert, ctype, details, ai_compliance, pass_count, fail_count, missing_count, review_count, listed) ==
    IF listed.raises # "" THEN Raise(listed.raises)
    ELSE Ok(WithCompliance(
                ResultDict(spec, cert, ctype, details, pass_count, fail_count,
                           missing_count, review_count,
                           pass_count + fail_count + missing_count + review_count,
                           overall_reason(fail_count, missing_count, review_count,
                                          listed.v)),
                ctype, ai_compliance))

\* lines 763-784: no names are joined when every detail passed
Decide(spec, cert, ctype, details, ai_compliance, pass_count, fail_count, missing_count, review_count) ==
    Report(spec, cert, ctype, details, ai_compliance, pass_count, fail_count,
           missing_count, review_count,
           IF fail_count + missing_count + review_count = 0 THEN Ok(<<>>)
           ELSE join(ParamsWithStatus(details,
                        ListedStatus(fail_count, missing_count, review_count))))

\* lines 741-815: counts, integrity check, verdict and the result
Finish(spec, cert, ctype, details, ai_compliance) ==
    Decide(spec, cert, ctype, details, ai_compliance,
           CountStatus(details, "PASS"), CountStatus(details, "FAIL"),
           CountStatus(details, "MISSING"), CountStatus(details, "REVIEW"))

\* the steps after the details are built, or the exception that building
\* them raised
FinishIfBuilt(spec, cert, ctype, built, ai_compliance) ==
    IF built.raises # "" THEN Raise(built.raises)
    ELSE Finish(spec, cert, ctype, built.v, ai_compliance)

\* line 674: ai_result and ai_result.get("parameters")
UsesAi(ai) == Truthy(ai) /\ Truthy(Get(ai.obj, "parameters", None))

\* the fallback of lines 725-734 with the steps that follow it
Fallback(spec, cert, ctype) ==
    FinishIfBuilt(spec, cert, ctype, LegacyDetails(spec, cert),
                  Str(Get(cert, "compliance_statement", <<>>)))

\* lines 679-680
MismatchReason(ai, spec, cert) ==
    Get(ai.obj, "product_match_reason",
        Str(<<"Product mismatch: spec='">> \o Get(spec, "product_name", <<>>)
            \o <<"' vs cert='">> \o Get(cert, "product_name", <<>>) \o <<"'">>))

\* ai_result.get("compliance_statement", "") or compliance
AiCompliance(ai, cert) ==
    IF Truthy(Get(ai.obj, "compliance_statement", Str(<<>>)))
    THEN Get(ai.obj, "compliance_statement", Str(<<>>))
    ELSE Str(Get(cert, "compliance_statement", <<>>))

\* lines 674-815: everything after the aligner call, given what it left in
\* ai_result; .get on a truthy value that is no dict is an AttributeError
Classify(spec, cert, ctype, ai) ==
    IF Truthy(ai) /\ ~IsObj(ai) THEN Raise("AttributeError")
    ELSE IF ~UsesAi(ai) THEN Fallback(spec, cert, ctype)
    ELSE IF Get(ai.obj, "product_match", None) = Bool(FALSE)
    THEN Ok(MismatchResult(spec, cert, ctype, MismatchReason(ai, spec, cert)))
    ELSE FinishIfBuilt(spec, cert, ctype, DetailsFromAi(ai.obj.parameters),
                       AiCompliance(ai, cert))

---------------------------------------------------------------------------
(* The inputs the model draws *)

MaxAiParams == 2

\* every sequence over S of length at most n
SeqsUpTo(S, n) == UNION {[1..k -> S] : k \in 0..n}

ProductPairs ==
    { <<<<"A", "c", "e", "t", "i", "c", " ", "A", "c", "i", "d", " ", "2", "0", "%">>, <<"A", "C", "E", "T", "I", "C", " ", "A", "C", "I", "D", " ", "2", "0", "%", " ", "G", "R", "D", " ", "1", "5", "L">>>>,
      <<<<"A", "c", "e", "t", "i", "c", " ", "A", "c", "i", "d", " ", "2", "0", "%">>, <<"Z", "i", "n", "c", " ", "G", "l", "u", "c", "o", "n", "a", "t", "e", " ", "P", "o", "w", "d", "e", "r", " ", "F", "G">>>>,
      <<<<>>, <<"Z", "i", "n", "c", " ", "G", "l", "u", "c", "o", "n", "a", "t", "e", " ", "P", "o", "w", "d", "e", "r", " ", "F", "G">>>> }

SP_pH == [name |-> <<"p", "H">>, value |-> <<>>, unit |-> <<>>,
          min_limit |-> <<"7", ".", "0">>, max_limit |-> <<"8", ".", "0">>]

SP_Lead == [name |-> <<"L", "e", "a", "d">>, value |-> <<>>, unit |-> <<"p", "p", "m">>,
            min_limit |-> <<>>, max_limit |-> <<"5">>]

SP_Appearance == [name |-> <<"A", "p", "p", "e", "a", "r", "a", "n", "c", "e">>, value |-> <<"C", "l", "e", "a", "r", " ", "l", "i", "q", "u", "i", "d">>]

SpecParamLists ==
    { <<>>, <<SP_pH>>, <<SP_Appearance>>, <<SP_pH, SP_Lead>>, <<SP_Lead, SP_Lead>>,
      <<SP_pH, SP_Lead, SP_Appearance>> }

CP_pH == [name |-> <<" ", "P", "H", " ">>, value |-> <<"7", ".", "5">>, unit |-> <<>>]

CP_Lead == [name |-> <<"L", "e", "a", "d">>, value |-> <<"6", "2", "0", "0">>, unit |-> <<"m", "g", "/", "L">>]

CP_Appearance == [name |-> <<"A", "p", "p", "e", "a", "r", "a", "n", "c", "e">>, value |-> <<"C", "o", "n", "f", "o", "r", "m", "s">>, unit |-> <<>>]

CP_pH_commas == [name |-> <<"p", "H">>, value |-> <<",", "x", "1">>, unit |-> <<>>]

CertParamLists ==
    { <<>>, <<CP_pH>>, <<CP_pH, CP_Lead>>, <<CP_Lead, CP_Appearance>>, <<CP_pH_commas>> }

ComplianceStatements == { <<>>, <<"C", "o", "m", "p", "l", "i", "e", "s", " ", "w", "i", "t", "h", " ", "s", "p", "e", "c", "i", "f", "i", "c", "a", "t", "i", "o", "n">> }

CertTypes == {"COA", "COCA", "COC"}

\* the optional classifier output: none, an accepted type in lower case, a
\* rejected type, and a classification whose document_type is empty
Classifications ==
    { None, [document_type |-> <<"c", "o", "a">>], [document_type |-> <<"I", "n", "v", "o", "i", "c", "e">>],
      [document_type |-> <<>>, confidence_score |-> [n |-> 3, d |-> 10]] }

\* entries of the aligner's parameters list
AiEntryPool ==
    << Obj([spec_parameter |-> Str(<<"p", "H">>), cert_parameter |-> Str(<<"P", "H">>),
            status |-> Str(<<"P", "A", "S", "S">>), confidence |-> [n |-> 95, d |-> 100],
            reason |-> Str(<<"w", "i", "t", "h", "i", "n", " ", "l", "i", "m", "i", "t", "s">>)]),
       Obj([spec_parameter |-> Str(<<"L", "e", "a", "d">>), status |-> Str(<<"F", "A", "I", "L">>),
            confidence |-> [n |-> 9, d |-> 10], reason |-> Str(<<"e", "x", "c", "e", "e", "d", "s", " ", "m", "a", "x", "i", "m", "u", "m">>)]),
       Obj([spec_parameter |-> Str(<<"p", "H">>), confidence |-> [n |-> 6, d |-> 10]]),
       Obj([spec_parameter |-> Str(<<"L", "e", "a", "d">>), status |-> Str(<<"M", "I", "S", "S", "I", "N", "G">>),
            confidence |-> None, reason |-> Str(<<"n", "o", "t", " ", "i", "n", " ", "c", "e", "r", "t", "i", "f", "i", "c", "a", "t", "e">>)]),
       Obj([spec_parameter |-> Str(<<"C", "o", "l", "o", "u", "r">>), status |-> Str(<<"N", "O", "T", "_", "I", "N", "_", "C", "E", "R", "T">>),
            confidence |-> [n |-> 15, d |-> 10]]),
       Obj([spec_parameter |-> Str(<<"L", "e", "a", "d">>), status |-> Str(<<"p", "a", "s", "s">>),
            confidence |-> [n |-> 0 - 2, d |-> 10]]) >>

\* the index sequences of length at most n that do not decrease: the lists
\* drawn from the pool keep the pool's order
Ascending(n) ==
    {ix \in SeqsUpTo(1..Len(AiEntryPool), n) :
        \A i \in 1..(Len(ix) - 1) : ix[i] <= ix[i + 1]}

\* what the aligner's parameters key holds, when present
AiParameters ==
    {List([i \in 1..Len(ix) |-> AiEntryPool[ix[i]]]) : ix \in Ascending(MaxAiParams)}
    \cup {Str(<<"n", "o", "n", "e">>)}

AiObjects ==
    LET heads == { [product_match |-> Bool(TRUE)],
                   [product_match |-> Bool(FALSE),
                    product_match_reason |-> Str(<<"D", "i", "f", "f", "e", "r", "e", "n", "t", " ", "c", "h", "e", "m", "i", "c", "a", "l", "s">>)],
                   [product_match |-> Bool(FALSE),
                    product_match_reason |-> Str(<<>>)] }
    IN  {Obj(h) : h \in heads}
        \cup {Obj(h @@ [parameters |-> ps]) : h \in heads, ps \in AiParameters}

JsonReply(v) == [raises |-> "", is_json |-> TRUE, text |-> <<>>, value |-> v]

AlignerReplies ==
    { [raises |-> "APITimeoutError", is_json |-> FALSE, text |-> <<>>, value |-> None],
      [raises |-> "", is_json |-> FALSE, text |-> <<"S", "o", "r", "r", "y">>, value |-> None],
      JsonReply(List(<<Str(<<"P", "A", "S", "S">>)>>)) }
    \cup {JsonReply(o) : o \in AiObjects}

---------------------------------------------------------------------------
(* compare_documents as a state machine: one action per gate, one for the   *)
(* aligner call and one for everything after it                             *)

Init ==
    /\ \E pr \in ProductPairs, sp \in SpecParamLists, cp \in CertParamLists,
          cs \in ComplianceStatements :
          /\ spec_data = [product_name |-> pr[1], material_number |-> <<"M", "1">>,
                          parameters |-> sp]
          /\ cert_data = [product_name |-> pr[2], batch_number |-> <<"B", "7">>,
                          parameters |-> cp, compliance_statement |-> cs]
    /\ cert_type \in CertTypes
    /\ classification \in Classifications
    /\ pc = "doc_type"
    /\ ai_calls = 0
    /\ ai_reply = None
    /\ ai_result = None
    /\ outcome = "running"
    /\ result = None
    /\ product_check = None
    /\ schema_call = None
    /\ retry_call = None
    /\ frames = None
    /\ unit_call = None
    /\ param_call = None
    /\ audit = None

\* return r
Return(r) ==
    /\ pc' = "done"
    /\ outcome' = "returned"
    /\ result' = r

\* an exception leaves compare_documents
Escape(e) ==
    /\ pc' = "done"
    /\ outcome' = "raised"
    /\ result' = [exception |-> e]

GoTo(label) ==
    /\ pc' = label
    /\ UNCHANGED <<outcome, result>>

\* return r when the gate produced a result, else go on
ReturnOrGo(r, label) == IF r # None THEN Return(r) ELSE GoTo(label)

\* lines 519-535, None when the type is accepted
TypeGateResult(spec, cert, ctype, rejected) ==
    IF rejected # <<>> THEN InvalidTypeResult(spec, cert, ctype, rejected) ELSE None

\* ProductGateResult with the empty-specification test of line 572 moved
\* ahead of the product test; GateOrder tells the two apart
ProductGateResult_after_spec(spec, cert, ctype, verdict) ==
    IF Params(spec) = <<>> THEN EmptySpecResult(spec, cert, ctype)
    ELSE IF ~verdict.is_match
    THEN MismatchResult(spec, cert, ctype, Str(verdict.reason))
    ELSE None

\* lines 547-565, None when the products match
ProductGateResult(spec, cert, ctype, verdict) ==
    IF ~verdict.is_match
    THEN MismatchResult(spec, cert, ctype, Str(verdict.reason))
    ELSE None

\* lines 572-589, None when the specification has parameters
SpecGateResult(spec, cert, ctype) ==
    IF Params(spec) = <<>> THEN EmptySpecResult(spec, cert, ctype) ELSE None

\* lines 515-535
DocTypeGate ==
    /\ pc = "doc_type"
    /\ ReturnOrGo(TypeGateResult(spec_data, cert_data, cert_type,
                                 RejectedType(classification)), "product")
    /\ UNCHANGED <<other_vars, spec_data, cert_data, cert_type, classification, ai_calls, ai_reply,
                   ai_result>>

\* lines 540-565
ProductGate ==
    /\ pc = "product"
    /\ ReturnOrGo(ProductGateResult(spec_data, cert_data, cert_type,
                       _check_product_match(Get(spec_data, "product_name", <<>>),
                                            Get(cert_data, "product_name", <<>>))),
                  "spec")
    /\ UNCHANGED <<other_vars, spec_data, cert_data, cert_type, classification, ai_calls, ai_reply,
                   ai_result>>

\* lines 568-589
SpecGate ==
    /\ pc = "spec"
    /\ ReturnOrGo(SpecGateResult(spec_data, cert_data, cert_type), "cert")
    /\ UNCHANGED <<other_vars, spec_data, cert_data, cert_type, classification, ai_calls, ai_reply,
                   ai_result>>

\* lines 591-661
CertGate ==
    /\ pc = "cert"
    /\ ReturnOrGo(CertGateResult(spec_data, cert_data, cert_type), "align")
    /\ UNCHANGED <<other_vars, spec_data, cert_data, cert_type, classification, ai_calls, ai_reply,
                   ai_result>>

\* lines 668-672: except Exception leaves None in ai_result
Caught(r) == IF r.raises # "" THEN None ELSE r.v

\* lines 668-672: the aligner call
AiCompare ==
    /\ pc = "align"
    /\ \E reply \in AlignerReplies :
          /\ ai_reply' = reply
          /\ ai_result' = Caught(_ai_compare(reply))
    /\ ai_calls' = ai_calls + 1
    /\ GoTo("classify")
    /\ UNCHANGED <<other_vars, spec_data, cert_data, cert_type, classification>>

\* return what the rest of the function computed, or let its exception out
Conclude(r) == IF r.raises # "" THEN Escape(r.raises) ELSE Return(r.v)

\* lines 674-815
ClassifyAndFinish ==
    /\ pc = "classify"
    /\ Conclude(Classify(spec_data, cert_data, cert_type, ai_result))
    /\ UNCHANGED <<other_vars, spec_data, cert_data, cert_type, classification, ai_calls, ai_reply,
                   ai_result>>

Next ==
    \/ DocTypeGate
    \/ ProductGate
    \/ SpecGate
    \/ CertGate
    \/ AiCompare
    \/ ClassifyAndFinish

Spec == Init /\ [][Next]_vars

---------------------------------------------------------------------------
(* _check_product_match called on its own: a pair of product names in, a *)
(* verdict out *)

\* no compare_documents call is in progress and no helper is being called
CompareIdle ==
    /\ unit_call = None
    /\ param_call = None
    /\ audit = None
    /\ spec_data = None
    /\ cert_data = None
    /\ cert_type = None
    /\ classification = None
    /\ pc = "idle"
    /\ ai_calls = 0
    /\ ai_reply = None
    /\ ai_result = None
    /\ outcome = "idle"
    /\ result = None

\* product names: empty, noise only, the names of the leniency scenario,
\* alias pairs, a prefix pair, a token inside another one, and names that
\* share only a word of the second stopword list
ProductNames ==
    { <<>>, <<"t", "h", "e">>, <<"A", "c", "e", "t", "i", "c", " ", "A", "c", "i", "d", " ", "2", "0", "%", " ", "P", "r", "e", "m", "i", "u", "m", " ", "G", "r", "a", "d", "e">>,
      <<"A", "C", "E", "T", "I", "C", " ", "A", "C", "I", "D", " ", "2", "0", "%", " ", "F", "L", "V", "1", "0", "5", "9", "4", " ", "P", "R", "E", "M", "I", "U", "M", " ", "G", "R", "D", " ", "1", "5", "L">>, <<"A", "c", "e", "t", "i", "c", " ", "A", "c", "i", "d", " ", "2", "0", "%">>,
      <<"Z", "i", "n", "c", " ", "G", "l", "u", "c", "o", "n", "a", "t", "e", " ", "P", "o", "w", "d", "e", "r", " ", "F", "G">>, <<"C", "a", "u", "s", "t", "i", "c", " ", "S", "o", "d", "a">>, <<"S", "o", "d", "i", "u", "m", " ", "H", "y", "d", "r", "o", "x", "i", "d", "e">>,
      <<"A", "l", "u", "m">>, <<"P", "A", "C", " ", "2", "3">>, <<"O", "x", "i", "d", "e">>, <<"Z", "i", "n", "c", " ", "s", "p", "e", "c">>, <<"C", "h", "l", "o", "r", "i", "n", "e", " ", "s", "p", "e", "c">>, <<"C", "h", "l", "o", "r">> }

ProductInit ==
    /\ CompareIdle
    /\ \E a \in ProductNames, b \in ProductNames :
          product_check = [spec_product |-> a, cert_product |-> b, verdict |-> None]
    /\ schema_call = None
    /\ retry_call = None
    /\ frames = None

\* is_match, confidence, reason = _check_product_match(spec_product, cert_product)
CheckProduct ==
    /\ product_check.verdict = None
    /\ product_check' =
          [product_check EXCEPT !.verdict =
              _check_product_match(product_check.spec_product,
                                   product_check.cert_product)]
    /\ UNCHANGED <<compare_vars, helper_vars, schema_call, retry_call, frames>>

SpecProduct == ProductInit /\ [][CheckProduct]_vars

---------------------------------------------------------------------------
(* src/core/schemas.py: constructing a ComparisonSchema *)

\* the largest count handed to the constructor
MaxCount == 3

\* Field(default=0, ge=0) on the four counts
CountsNonNegative(f) ==
    /\ f.parameters_checked >= 0
    /\ f.parameters_passed >= 0
    /\ f.parameters_failed >= 0
    /\ f.parameters_review >= 0

\* the model validator, run after the fields were validated
validate_parameter_counts(self) ==
    LET total == self.parameters_passed + self.parameters_failed
                 + self.parameters_review
    IN  IF self.parameters_checked > 0 /\ total > self.parameters_checked
        THEN Raise("ValueError")
        ELSE Ok(self)

\* pydantic reports a failed field constraint and a ValueError of the
\* validator alike as a ValidationError
ComparisonSchema(f) ==
    IF ~CountsNonNegative(f) THEN Raise("ValidationError")
    ELSE IF validate_parameter_counts(f).raises # "" THEN Raise("ValidationError")
    ELSE Ok(f)

SchemaInit ==
    /\ CompareIdle
    /\ product_check = None
    /\ \E c \in -1..MaxCount, p \in -1..MaxCount, f \in -1..MaxCount,
          r \in -1..MaxCount :
          schema_call = [fields |-> [status |-> "PASS", parameters_checked |-> c,
                                     parameters_passed |-> p, parameters_failed |-> f,
                                     parameters_review |-> r],
                         constructed |-> None]
    /\ retry_call = None
    /\ frames = None

\* ComparisonSchema(status=..., parameters_checked=..., ...)
Construct ==
    /\ schema_call.constructed = None
    /\ schema_call' = [schema_call EXCEPT !.constructed = ComparisonSchema(schema_call.fields)]
    /\ UNCHANGED <<compare_vars, helper_vars, product_check, retry_call, frames>>

SpecSchema == SchemaInit /\ [][Construct]_vars

---------------------------------------------------------------------------
(* src/core/retry_config.py: a function wrapped by one of the retry *)
(* decorators.  The wait between attempts changes no state and is left out. *)

\* the most invocations of the wrapped function one call is followed for
MaxCalls == 4

\* the classes an exception is an instance of: APITimeoutError derives from
\* APIConnectionError, PermissionError and FileNotFoundError from OSError,
\* and IOError is another name of OSError
Classes(e) ==
    CASE e = "APITimeoutError" -> {"APITimeoutError", "APIConnectionError"}
      [] e = "PermissionError" -> {"PermissionError", "OSError"}
      [] e = "FileNotFoundError" -> {"FileNotFoundError", "OSError"}
      [] OTHER -> {e}

retry_openai_call ==
    [stop_after_attempt |-> 3,
     retry_if_exception_type |-> {"APITimeoutError", "APIConnectionError",
                                  "RateLimitError", "InternalServerError"},
     reraise |-> TRUE]

retry_file_io ==
    [stop_after_attempt |-> 3,
     retry_if_exception_type |-> {"OSError", "PermissionError"},
     reraise |-> TRUE]

\* retry_pdf_operation stopping after three attempts like the other two
retry_pdf_operation_three_attempts ==
    [stop_after_attempt |-> 3,
     retry_if_exception_type |-> {"OSError", "RuntimeError"},
     reraise |-> TRUE]

retry_pdf_operation ==
    [stop_after_attempt |-> 2,
     retry_if_exception_type |-> {"OSError", "RuntimeError"},
     reraise |-> TRUE]

Decorator(name) ==
    CASE name = "retry_openai_call" -> retry_openai_call
      [] name = "retry_file_io" -> retry_file_io
      [] name = "retry_pdf_operation" -> retry_pdf_operation

\* what one invocation of the wrapped function does: return, or raise one
\* of these exceptions
Outcomes ==
    {"return", "APITimeoutError", "RateLimitError", "OSError", "PermissionError",
     "FileNotFoundError", "RuntimeError", "ValueError"}

\* retry_if_exception_type(types) on a raised exception
ShouldRetry(d, e) == Classes(e) \cap d.retry_if_exception_type # {}

\* the state of the call after an invocation that was attempt number n and
\* ended in o: returned, to be called again, or raised
AfterAttempt(d, n, o) ==
    IF o = "return" THEN [state |-> "returned", exception |-> None]
    ELSE IF ~ShouldRetry(d, o) THEN [state |-> "raised", exception |-> o]
    ELSE IF n >= d.stop_after_attempt
    THEN [state |-> "raised", exception |-> IF d.reraise THEN o ELSE "RetryError"]
    ELSE [state |-> "calling", exception |-> None]

RetryInit ==
    /\ CompareIdle
    /\ product_check = None
    /\ schema_call = None
    /\ \E name \in {"retry_openai_call", "retry_file_io", "retry_pdf_operation"} :
          retry_call = [decorator |-> name, invocations |-> <<>>,
                        state |-> "calling", exception |-> None]
    /\ frames = None

\* one attempt: the wrapped function is invoked, ends in o, and the
\* decorator decides
Attempt ==
    /\ retry_call.state = "calling"
    /\ Len(retry_call.invocations) < MaxCalls
    /\ \E o \in Outcomes :
          retry_call' =
              [decorator |-> retry_call.decorator,
               invocations |-> Append(retry_call.invocations, o)]
              @@ AfterAttempt(Decorator(retry_call.decorator),
                              Len(retry_call.invocations) + 1, o)
    /\ UNCHANGED <<compare_vars, helper_vars, product_check, schema_call, frames>>

SpecRetry == RetryInit /\ [][Attempt]_vars

---------------------------------------------------------------------------
(* Several compare_documents calls in flight at once.  Everything a call  *)
(* works on is a local variable of its own frame; the module-level tables  *)
(* (_CHEM_ALIASES, UNIT_MAP, CONVERSION_FACTORS) are shared and only read.  *)

\* the number of calls in flight
NumCalls == 2

Procs == 1..NumCalls

\* the module-level tables as loaded at import
Tables ==
    [_CHEM_ALIASES |-> CHEM_ALIASES, UNIT_MAP |-> UNIT_MAP,
     CONVERSION_FACTORS |-> CONVERSION_FACTORS]

\* the arguments of the calls: a COA that reaches the aligner, a COC with
\* only a compliance statement, two different products, a rejected type, a
\* COCA that reaches the aligner
CallArgs ==
    { [spec_data |-> [product_name |-> <<"A", "c", "e", "t", "i", "c", " ", "A", "c", "i", "d", " ", "2", "0", "%">>,
                      parameters |-> <<SP_pH, SP_Lead>>],
       cert_data |-> [product_name |-> <<"A", "C", "E", "T", "I", "C", " ", "A", "C", "I", "D", " ", "2", "0", "%", " ", "G", "R", "D", " ", "1", "5", "L">>,
                      parameters |-> <<CP_pH>>],
       cert_type |-> "COA", classification |-> None],
      [spec_data |-> [product_name |-> <<"A", "c", "e", "t", "i", "c", " ", "A", "c", "i", "d", " ", "2", "0", "%">>, parameters |-> <<SP_pH>>],
       cert_data |-> [product_name |-> <<"A", "C", "E", "T", "I", "C", " ", "A", "C", "I", "D", " ", "2", "0", "%", " ", "G", "R", "D", " ", "1", "5", "L">>,
                      parameters |-> <<>>,
                      compliance_statement |-> <<"C", "o", "m", "p", "l", "i", "e", "s">>],
       cert_type |-> "COC", classification |-> None],
      [spec_data |-> [product_name |-> <<"A", "c", "e", "t", "i", "c", " ", "A", "c", "i", "d", " ", "2", "0", "%">>, parameters |-> <<SP_pH>>],
       cert_data |-> [product_name |-> <<"Z", "i", "n", "c", " ", "G", "l", "u", "c", "o", "n", "a", "t", "e", " ", "P", "o", "w", "d", "e", "r", " ", "F", "G">>,
                      parameters |-> <<CP_pH>>],
       cert_type |-> "COA", classification |-> None],
      [spec_data |-> [product_name |-> <<"A", "c", "e", "t", "i", "c", " ", "A", "c", "i", "d", " ", "2", "0", "%">>, parameters |-> <<SP_pH>>],
       cert_data |-> [product_name |-> <<"A", "C", "E", "T", "I", "C", " ", "A", "C", "I", "D", " ", "2", "0", "%", " ", "G", "R", "D", " ", "1", "5", "L">>,
                      parameters |-> <<CP_pH>>],
       cert_type |-> "COA", classification |-> [document_type |-> <<"I", "n", "v", "o", "i", "c", "e">>]],
      [spec_data |-> [product_name |-> <<"C", "a", "u", "s", "t", "i", "c", " ", "S", "o", "d", "a">>, parameters |-> <<SP_Lead>>],
       cert_data |-> [product_name |-> <<"S", "o", "d", "i", "u", "m", " ", "H", "y", "d", "r", "o", "x", "i", "d", "e">>,
                      parameters |-> <<CP_Lead>>],
       cert_type |-> "COCA", classification |-> [document_type |-> <<"c", "o", "a">>]] }

\* what the aligner answers to a call: an exception, a match, a product
\* mismatch, an entry whose confidence is null
CallReplies ==
    { [raises |-> "APITimeoutError", is_json |-> FALSE, text |-> <<>>, value |-> None],
      JsonReply(Obj([product_match |-> Bool(TRUE),
                     parameters |-> List(<<AiEntryPool[1], AiEntryPool[2]>>)])),
      JsonReply(Obj([product_match |-> Bool(FALSE),
                     product_match_reason |-> Str(<<"D", "i", "f", "f", "e", "r", "e", "n", "t", " ", "c", "h", "e", "m", "i", "c", "a", "l", "s">>),
                     parameters |-> List(<<AiEntryPool[1]>>)])),
      JsonReply(Obj([product_match |-> Bool(TRUE),
                     parameters |-> List(<<AiEntryPool[4]>>)])) }

\* the frame of a call that was just entered with arguments a; args keeps
\* what the caller passed
Frame(a) ==
    [args |-> a, spec_data |-> a.spec_data, cert_data |-> a.cert_data,
     cert_type |-> a.cert_type, classification |-> a.classification,
     pc |-> "doc_type", ai_reply |-> None, ai_result |-> None,
     outcome |-> "running", result |-> None, interleaved |-> FALSE]

\* the frame after a gate: returned with r, or on to the next step
AfterGate(f, r, label) ==
    IF r # None
    THEN [f EXCEPT !.pc = "done", !.outcome = "returned", !.result = r]
    ELSE [f EXCEPT !.pc = label]

\* the frame after the steps that follow the aligner call
AfterClassify(f, r) ==
    IF r.raises # ""
    THEN [f EXCEPT !.pc = "done", !.outcome = "raised", !.result = [exception |-> r.raises]]
    ELSE [f EXCEPT !.pc = "done", !.outcome = "returned", !.result = r.v]

\* one step of the call in frame f, the aligner call excepted
Advance(f) ==
    CASE f.pc = "doc_type" ->
            AfterGate(f, TypeGateResult(f.spec_data, f.cert_data, f.cert_type,
                                        RejectedType(f.classification)), "product")
      [] f.pc = "product" ->
            AfterGate(f, ProductGateResult(f.spec_data, f.cert_data, f.cert_type,
                             _check_product_match(Get(f.spec_data, "product_name", <<>>),
                                                  Get(f.cert_data, "product_name", <<>>))),
                      "spec")
      [] f.pc = "spec" ->
            AfterGate(f, SpecGateResult(f.spec_data, f.cert_data, f.cert_type), "cert")
      [] f.pc = "cert" ->
            AfterGate(f, CertGateResult(f.spec_data, f.cert_data, f.cert_type), "align")
      [] f.pc = "classify" ->
            AfterClassify(f, Classify(f.spec_data, f.cert_data, f.cert_type, f.ai_result))

\* the frame after the aligner call of lines 668-672 was answered by reply
Aligned(f, reply) ==
    [f EXCEPT !.pc = "classify", !.ai_reply = reply,
              !.ai_result = Caught(_ai_compare(reply))]

\* another call than i is between its first step and its return
OthersInFlight(calls, i) ==
    \E j \in DOMAIN calls : j # i /\ calls[j].pc \notin {"doc_type", "done"}

\* every call's ai_result kept in one module-level variable
Store_module_level(calls, i, f) ==
    [j \in DOMAIN calls |->
        IF j = i THEN [f EXCEPT !.interleaved = @ \/ OthersInFlight(calls, i)]
        ELSE [calls[j] EXCEPT !.ai_result = f.ai_result]]

\* the frames after call i moved to frame f: a frame belongs to its call
Store(calls, i, f) ==
    [calls EXCEPT ![i] = [f EXCEPT !.interleaved = @ \/ OthersInFlight(calls, i)]]

ParInit ==
    /\ CompareIdle
    /\ product_check = None
    /\ schema_call = None
    /\ retry_call = None
    /\ \E as \in [Procs -> CallArgs] :
          frames = [calls |-> [i \in Procs |-> Frame(as[i])], tables |-> Tables]

\* call i takes a step other than the aligner call
Proceed(i) ==
    /\ frames.calls[i].pc \notin {"align", "done"}
    /\ frames' = [frames EXCEPT !.calls = Store(frames.calls, i, Advance(frames.calls[i]))]
    /\ UNCHANGED <<compare_vars, helper_vars, product_check, schema_call, retry_call>>

\* call i calls the aligner
Align(i) ==
    /\ frames.calls[i].pc = "align"
    /\ \E reply \in CallReplies :
          frames' = [frames EXCEPT
                        !.calls = Store(frames.calls, i, Aligned(frames.calls[i], reply))]
    /\ UNCHANGED <<compare_vars, helper_vars, product_check, schema_call, retry_call>>

ParNext == \E i \in Procs : Proceed(i) \/ Align(i)

SpecPar == ParInit /\ [][ParNext]_vars

---------------------------------------------------------------------------
(* src/core/unit_normalizer.py: normalize_unit applied to a unit string and *)
(* then to its own result *)

\* nothing but the helper calls is going on
EngineIdle ==
    /\ spec_data = None
    /\ cert_data = None
    /\ cert_type = None
    /\ classification = None
    /\ pc = "idle"
    /\ ai_calls = 0
    /\ ai_reply = None
    /\ ai_result = None
    /\ outcome = "idle"
    /\ result = None
    /\ product_check = None
    /\ schema_call = None
    /\ retry_call = None
    /\ frames = None

\* unit strings: every key and every value of UNIT_MAP, strings the table
\* does not have, and each of them in upper case and between whitespace
UnitStrings ==
    LET base == {e[1] : e \in UNIT_MAP} \cup {e[2] : e \in UNIT_MAP}
                \cup {<<>>, <<" ">>, <<"m", "o", "l", "/", "L">>, <<"P", "p", "m", " ", "x">>, <<"c", "P">>}
    IN  base \cup {Upper(u) : u \in base}
             \cup {<<" ">> \o u \o <<" ", "\t">> : u \in base}
             \cup {<<"\t">> \o Upper(u) \o <<" ">> : u \in base}

UnitInit ==
    /\ EngineIdle
    /\ \E u \in UnitStrings :
          unit_call = [unit |-> u, calls |-> 0, once |-> <<>>, twice |-> <<>>]
    /\ param_call = None
    /\ audit = None

\* once = normalize_unit(unit)
NormalizeOnce ==
    /\ unit_call.calls = 0
    /\ unit_call' = [unit_call EXCEPT !.calls = 1,
                                      !.once = normalize_unit(unit_call.unit)]
    /\ UNCHANGED <<compare_vars, product_check, schema_call, retry_call, frames,
                   param_call, audit>>

\* twice = normalize_unit(once)
NormalizeTwice ==
    /\ unit_call.calls = 1
    /\ unit_call' = [unit_call EXCEPT !.calls = 2,
                                      !.twice = normalize_unit(unit_call.once)]
    /\ UNCHANGED <<compare_vars, product_check, schema_call, retry_call, frames,
                   param_call, audit>>

UnitNext == NormalizeOnce \/ NormalizeTwice

SpecUnit == UnitInit /\ [][UnitNext]_vars

---------------------------------------------------------------------------
(* src/core/comparator.py: the deterministic fallback called on its own: *)
(* _match_parameters_legacy and the mapping of lines 725-734 *)

\* the longest parameter list handed to the fallback
MaxParams == 2

\* specification parameters: names that match exactly, after normalization
\* or not at all
FallbackSpecParams ==
    { SP_pH, SP_Lead, SP_Appearance,
      [name |-> <<" ", "T", "o", "t", "a", "l", " ", "I", "r", "o", "n", " ", "(", "F", "e", ")", " ">>, max_limit |-> <<"1">>] }

\* certificate parameters; two of them carry the words Missing parameter
\* in their value
FallbackCertParams ==
    { CP_pH, CP_Lead,
      [name |-> <<"t", "o", "t", "a", "l", " ", "i", "r", "o", "n", " ", "f", "e">>, value |-> <<"0", ".", "5">>],
      [name |-> <<"p", "H">>, value |-> <<"M", "i", "s", "s", "i", "n", "g", " ", "p", "a", "r", "a", "m", "e", "t", "e", "r">>],
      [name |-> <<"A", "p", "p", "e", "a", "r", "a", "n", "c", "e">>, value |-> <<"M", "i", "s", "s", "i", "n", "g", " ", "p", "a", "r", "a", "m", "e", "t", "e", "r", " ", "s", "h", "e", "e", "t">>] }

FallbackInit ==
    /\ EngineIdle
    /\ unit_call = None
    /\ \E sp \in SeqsUpTo(FallbackSpecParams, MaxParams) \ {<<>>},
          cp \in SeqsUpTo(FallbackCertParams, MaxParams) :
          param_call = [spec_data |-> [parameters |-> sp],
                        cert_data |-> [parameters |-> cp],
                        returned |-> None]
    /\ audit = None

\* details = _match_parameters_legacy(spec_params, cert_params), then the
\* loop of lines 729-733
MatchLegacy ==
    /\ param_call.returned = None
    /\ param_call' = [param_call EXCEPT
                         !.returned = LegacyDetails(param_call.spec_data,
                                                    param_call.cert_data)]
    /\ UNCHANGED <<compare_vars, product_check, schema_call, retry_call, frames,
                   unit_call, audit>>

SpecFallback == FallbackInit /\ [][MatchLegacy]_vars

---------------------------------------------------------------------------
(* src/core/comparator.py: _compare_single_param called on one matched pair *)

\* the specification parameters of the calls: a qualitative value or none,
\* a unit or none, and limits that are absent, numeric, sign-prefixed,
\* worded, or a comma run without digits before the first digit
SingleSpecValues == {<<>>, <<"C", "l", "e", "a", "r", " ", "l", "i", "q", "u", "i", "d">>}

SingleSpecUnits == {<<>>, <<"p", "p", "m">>, <<"%">>}

SingleMinLimits == {<<>>, <<"5">>, <<"-", "5">>, <<",", "x", "1">>}

SingleMaxLimits == {<<>>, <<"1", "0">>, <<"N", "M", "T", " ", "1", "0">>, <<",", "x", "1">>}

\* the certificate parameters of the calls
SingleCertValues ==
    {<<"7", ".", "5">>, <<"5">>, <<"1", "0">>, <<"1", "2">>, <<"3">>, <<"<", "3">>, <<"<", "1", "0">>, <<"<", "1", "2">>, <<">", "1", "0">>,
     <<"6", "2", "0", "0">>, <<"0", ".", "0", "0", "4">>, <<"C", "o", "n", "f", "o", "r", "m", "s">>, <<" ", "c", "l", "e", "a", "r", " ", " ", "l", "i", "q", "u", "i", "d", ".", " ">>, <<"!", "!", "!">>, <<"N", "D">>, <<"N", "/", "A">>}

SingleCertUnits == {<<>>, <<"p", "p", "m">>, <<"m", "g", "/", "L">>, <<"%">>, <<"p", "p", "b">>}

SingleInit ==
    /\ EngineIdle
    /\ unit_call = None
    /\ \E v \in SingleSpecValues, u \in SingleSpecUnits, lo \in SingleMinLimits,
          hi \in SingleMaxLimits, cv \in SingleCertValues, cu \in SingleCertUnits :
          param_call = [spec_param |-> [name |-> <<"L", "e", "a", "d">>, value |-> v, unit |-> u,
                                        min_limit |-> lo, max_limit |-> hi],
                        cert_param |-> [name |-> <<"L", "e", "a", "d">>, value |-> cv, unit |-> cu],
                        returned |-> None]
    /\ audit = None

\* result = _compare_single_param(spec_param, cert_param)
CompareSingle ==
    /\ param_call.returned = None
    /\ param_call' = [param_call EXCEPT
                         !.returned = _compare_single_param(param_call.spec_param,
                                                            param_call.cert_param)]
    /\ UNCHANGED <<compare_vars, product_check, schema_call, retry_call, frames,
                   unit_call, audit>>

SpecParam == SingleInit /\ [][CompareSingle]_vars

---------------------------------------------------------------------------
(* src/core/logger.py: the audit log and the calls that write to it.  Runs
   of the program are separate processes sharing the file config.AUDIT_LOG;
   a call is a sequence of file operations that another run's operations
   may come between.  A cell of a row is the text csv.writer writes. *)

\* lines 16-33
AUDIT_COLUMNS ==
    << "Timestamp", "Spec_File", "Cert_File", "Cert_Type", "Model",
       "Doc_Type_Detected", "Product_Name", "Material_Number", "Batch_Number",
       "Status", "Reason", "Confidence", "Parameters_Checked",
       "Parameters_Passed", "Parameters_Failed", "Parameters_Missing" >>

\* the runs logging at the same time
NumLoggers == 2

Loggers == 1..NumLoggers

\* the position of a column in AUDIT_COLUMNS
ColumnIndex(column) == CHOOSE i \in 1..Len(AUDIT_COLUMNS) : AUDIT_COLUMNS[i] = column

\* the cell a row carries under a column of the header
Cell(row, column) == row[ColumnIndex(column)]

\* str() of a count, as csv.writer writes it
CountText(n) == ToString(n)

\* the comparison results handed to log_result: the dict of comparator.py
\* lines 793-809 for passed, failed, missing and review counts
ComparisonOf(passed, failed, missing, review) ==
    [status |-> overall_status(failed, missing, review),
     reason |-> "reason",
     product_name |-> "Acetic Acid 20%",
     batch_number |-> "B7",
     parameters_checked |-> passed + failed + missing + review,
     parameters_passed |-> passed,
     parameters_failed |-> failed,
     parameters_missing |-> missing,
     parameters_review |-> review]

Comparisons ==
    { ComparisonOf(2, 0, 0, 0), ComparisonOf(1, 0, 1, 0), ComparisonOf(1, 0, 0, 1),
      ComparisonOf(0, 1, 2, 0), ComparisonOf(1, 1, 1, 1),
      [reason |-> "Unexpected document type"] }

LoggedClassification == [document_type |-> "COA", confidence_score |-> "0.9"]

\* lines 68-85: the row of log_result (every reason of Comparisons is
\* shorter than the cut of line 79)
ResultRow(spec_file, cert_file, ctype, model, classification_arg, comparison, material_number) ==
    << "now", spec_file, cert_file, ctype, model,
       Get(classification_arg, "document_type", ""),
       Get(comparison, "product_name", ""),
       material_number,
       Get(comparison, "batch_number", ""),
       Get(comparison, "status", "ERROR"),
       Get(comparison, "reason", ""),
       Get(classification_arg, "confidence_score", "0.0"),
       CountText(Get(comparison, "parameters_checked", 0)),
       CountText(Get(comparison, "parameters_passed", 0)),
       CountText(Get(comparison, "parameters_failed", 0)),
       CountText(Get(comparison, "parameters_review", 0)) >>

\* lines 110-124: the row of log_error
ErrorRow(spec_file, cert_file, ctype, model, error_msg, material_number) ==
    << "now", spec_file, cert_file, ctype, model, "ERROR", "", material_number,
       "", "ERROR", error_msg, "0.0", "0", "0", "0", "0" >>

\* the file name a run logs under
SpecFileOf(p) == IF p = 1 THEN "spec_1.pdf" ELSE IF p = 2 THEN "spec_2.pdf" ELSE "spec_3.pdf"

\* a call of log_result (comparison is a dict) or of log_error (comparison
\* is None) about to run _ensure_audit_log
LogCall(p, comparison) ==
    [fn |-> IF comparison = None THEN "log_error" ELSE "log_result",
     spec_file |-> SpecFileOf(p),
     comparison |-> comparison,
     at |-> "ensure",
     row |-> <<>>]

\* the log file before the calls: absent, or left by an earlier run
EarlierRow == ErrorRow("spec_0.pdf", "cert.pdf", "COA", "gpt-4o", "Extraction failed", "")

LogFiles ==
    { [exists |-> FALSE, rows |-> <<>>],
      [exists |-> TRUE, rows |-> <<AUDIT_COLUMNS>>],
      [exists |-> TRUE, rows |-> <<AUDIT_COLUMNS, EarlierRow>>] }

\* audit.appended records the rows whose append has completed, in order
AuditInit ==
    /\ EngineIdle
    /\ unit_call = None
    /\ param_call = None
    /\ \E file \in LogFiles, args \in [Loggers -> Comparisons \cup {None}] :
          audit = [exists |-> file.exists,
                   rows |-> file.rows,
                   appended |-> SelectSeq(file.rows, LAMBDA r : r # AUDIT_COLUMNS),
                   calls |-> [p \in Loggers |-> LogCall(p, args[p])]]

AuditUnchanged ==
    UNCHANGED <<compare_vars, product_check, schema_call, retry_call, frames,
                unit_call, param_call>>

\* the call of p moves on
Moves(p, at) == [audit.calls EXCEPT ![p].at = at]

\* line 38: if not config.AUDIT_LOG.exists()
CheckExists(p) ==
    /\ audit.calls[p].at = "ensure"
    /\ audit' = [audit EXCEPT !.calls = Moves(p, IF audit.exists THEN "row" ELSE "open")]
    /\ AuditUnchanged

\* line 40: open(config.AUDIT_LOG, "w") creates the file or empties it
OpenForWriting(p) ==
    /\ audit.calls[p].at = "open"
    /\ audit' = [audit EXCEPT !.exists = TRUE, !.rows = <<>>,
                              !.calls = Moves(p, "header")]
    /\ AuditUnchanged

\* what a write at the beginning of the file leaves: the header, in the
\* place of the row that was first
WrittenAtStart(rows, header) ==
    IF rows = <<>> THEN <<header>> ELSE <<header>> \o Tail(rows)

\* lines 41-42: the header leaves the writer's buffer when the with block
\* closes the file; the file position of this handle is the beginning
WriteHeader(p) ==
    /\ audit.calls[p].at = "header"
    /\ audit' = [audit EXCEPT !.rows = WrittenAtStart(audit.rows, AUDIT_COLUMNS),
                              !.calls = Moves(p, "row")]
    /\ AuditUnchanged

\* lines 68-85 and 110-124: row = [...]
BuildRow(p) ==
    /\ audit.calls[p].at = "row"
    /\ audit' = [audit EXCEPT
                    !.calls[p].at = "append",
                    !.calls[p].row =
                        IF audit.calls[p].fn = "log_result"
                        THEN ResultRow(audit.calls[p].spec_file, "cert.pdf", "COA", "gpt-4o",
                                       LoggedClassification, audit.calls[p].comparison, "")
                        ELSE ErrorRow(audit.calls[p].spec_file, "cert.pdf", "COA", "gpt-4o",
                                      "Extraction failed", "")]
    /\ AuditUnchanged

\* lines 87-89 and 126-128: open(config.AUDIT_LOG, "a") and writerow(row)
AppendRow(p) ==
    /\ audit.calls[p].at = "append"
    /\ audit' = [audit EXCEPT !.exists = TRUE,
                              !.rows = Append(audit.rows, audit.calls[p].row),
                              !.appended = Append(audit.appended, audit.calls[p].row),
                              !.calls = Moves(p, "done")]
    /\ AuditUnchanged

AuditNext ==
    \E p \in Loggers :
        \/ CheckExists(p)
        \/ OpenForWriting(p)
        \/ WriteHeader(p)
        \/ BuildRow(p)
        \/ AppendRow(p)

SpecAudit == AuditInit /\ [][AuditNext]_vars

---------------------------------------------------------------------------
(* Properties of compare_documents *)

\* compare_documents has returned a result
Returned == pc = "done" /\ outcome = "returned"

\* the statuses that occur in the returned details
DetailStatuses == {result.details[i].status : i \in 1..Len(result.details)}

\* the four counts of the returned result, added up
CountSum ==
    result.parameters_passed + result.parameters_failed
    + result.parameters_review + result.parameters_missing

\* the result was built from details on the classification path: the gates
\* passed, the aligner was called and no product mismatch ended the call
DetailsBuilt == Returned /\ ai_calls = 1 /\ "product_mismatch" \notin DOMAIN result

\* the products of the two records do not match (section 4.4)
ProductsDiffer ==
    ~_check_product_match(Get(spec_data, "product_name", <<>>),
                          Get(cert_data, "product_name", <<>>)).is_match

TypeRejected == RejectedType(classification) # <<>>

SpecEmpty == Params(spec_data) = <<>>

CertIncomplete == CertGateResult(spec_data, cert_data, cert_type) # None

\* the parameters value of the aligner's reply, None when the reply is not
\* a JSON object or has no such key
ReplyParameters ==
    IF ai_reply.raises = "" /\ ai_reply.is_json /\ IsObj(ai_reply.value)
    THEN Get(ai_reply.value.obj, "parameters", None)
    ELSE None

\* the reply is a JSON object
ReplyIsObject == ai_reply.raises = "" /\ ai_reply.is_json /\ IsObj(ai_reply.value)

\* the overall reason carries the integrity warning
WarningInReason ==
    \E i \in 1..Len(result.reason.str) :
        result.reason.str[i] = " [INTEGRITY WARNING: Checked "

\* C1: on the classification path the overall status is FAIL exactly when a
\* detail is FAIL; otherwise REVIEW exactly when a detail is MISSING or
\* REVIEW; otherwise PASS.
VerdictPrecedence ==
    DetailsBuilt =>
        /\ (result.status = "FAIL") <=> ("FAIL" \in DetailStatuses)
        /\ "FAIL" \notin DetailStatuses =>
              ((result.status = "REVIEW")
                  <=> (DetailStatuses \cap {"MISSING", "REVIEW"} # {}))
        /\ DetailStatuses \cap {"FAIL", "MISSING", "REVIEW"} = {} =>
              result.status = "PASS"

\* a result whose details hold both a FAIL and a MISSING and whose status is
\* FAIL
VerdictPrecedenceWitness ==
    /\ DetailsBuilt
    /\ "FAIL" \in DetailStatuses
    /\ "MISSING" \in DetailStatuses
    /\ result.status = "FAIL"

\* the aligner call raised, answered text that is not JSON, or answered an
\* object whose parameters list is missing or empty
AlignerFailed ==
    \/ ai_reply.raises # ""
    \/ ~ai_reply.is_json
    \/ ReplyIsObject /\ ReplyParameters \in {None, List(<<>>)}

\* C2: once the gates have passed, when the aligner call raises, answers
\* text that is not JSON or an object without a non-empty parameters list,
\* compare_documents does not raise and returns exactly what the
\* deterministic fallback produces for the same records.
FallsBackWithoutRaising ==
    (pc = "done" /\ ai_calls = 1 /\ AlignerFailed) =>
        /\ outcome = "returned"
        /\ result = Fallback(spec_data, cert_data, cert_type).v

\* C3: compare_documents never lets an exception escape: it returns a
\* result whose status is PASS, FAIL, REVIEW or ERROR.
NeverRaises ==
    pc = "done" =>
        /\ outcome = "returned"
        /\ result.status \in {"PASS", "FAIL", "REVIEW", "ERROR"}

\* C4: the gates are evaluated in the order document type, product
\* identity, specification completeness, certificate completeness; the
\* result is that of the first gate that fails, and the aligner is called
\* only after all four have passed.
GateOrder ==
    /\ ai_calls > 0 =>
          ~TypeRejected /\ ~ProductsDiffer /\ ~SpecEmpty /\ ~CertIncomplete
    /\ (pc = "done" /\ (TypeRejected \/ ProductsDiffer \/ SpecEmpty \/ CertIncomplete)) =>
          /\ outcome = "returned"
          /\ ai_calls = 0
          /\ IF TypeRejected
             THEN result.status = "FAIL" /\ ~result.document_type_valid
             ELSE IF ProductsDiffer
             THEN /\ result.status = "FAIL"
                  /\ result.document_type_valid
                  /\ "product_mismatch" \in DOMAIN result
             ELSE IF SpecEmpty
             THEN /\ result.status = "FAIL"
                  /\ result.document_type_valid
                  /\ "product_mismatch" \notin DOMAIN result
             ELSE result.status = "REVIEW"

\* a product mismatch together with an empty specification, reported as
\* the product mismatch
GateOrderWitness ==
    /\ Returned
    /\ ProductsDiffer
    /\ SpecEmpty
    /\ "product_mismatch" \in DOMAIN result

\* C5: when the document-type gate passes and the product names do not
\* match, the result is FAIL with product_mismatch true, no details and all
\* counts zero, whatever the parameters, kind and compliance statement, and
\* the aligner is not called.
ProductMismatchIsTerminal ==
    (pc = "done" /\ ~TypeRejected /\ ProductsDiffer) =>
        /\ outcome = "returned"
        /\ result.status = "FAIL"
        /\ "product_mismatch" \in DOMAIN result
        /\ result.product_mismatch
        /\ result.details = <<>>
        /\ result.parameters_checked = 0
        /\ CountSum = 0
        /\ ai_calls = 0

\* a mismatch returned for a COCA certificate that has parameters and a
\* compliance statement, against a specification that has parameters
ProductMismatchWitness ==
    /\ Returned
    /\ ProductsDiffer
    /\ "product_mismatch" \in DOMAIN result
    /\ cert_type = "COCA"
    /\ Params(spec_data) # <<>>
    /\ Params(cert_data) # <<>>
    /\ Get(cert_data, "compliance_statement", <<>>) # <<>>

\* C6: whenever the aligner's reply says product_match is false, the result
\* is the terminal FAIL with product_mismatch true and zero parameters
\* checked, whatever the reply's parameters list holds, also when that list
\* is empty or absent.
AlignerMismatchIsTerminal ==
    (pc = "done" /\ ai_calls = 1 /\ ReplyIsObject
        /\ Get(ai_reply.value.obj, "product_match", None) = Bool(FALSE)) =>
        /\ outcome = "returned"
        /\ result.status = "FAIL"
        /\ "product_mismatch" \in DOMAIN result
        /\ result.parameters_checked = 0

\* C7 as stated: in every returned result the integrity flag is true
\* exactly when the four counts add up to total_params_in_spec.
IntegrityExact ==
    Returned => (result.integrity_check <=> (CountSum = result.total_params_in_spec))

\* C7: in every returned result a true integrity flag means the four counts
\* add up to total_params_in_spec, and in the results built from details on
\* the classification path the flag is true exactly when they do.
IntegritySound ==
    /\ Returned =>
          (result.integrity_check => (CountSum = result.total_params_in_spec))
    /\ DetailsBuilt =>
          (result.integrity_check <=> (CountSum = result.total_params_in_spec))

\* a result of the classification path whose flag is false because the
\* aligner dropped a parameter
IntegritySoundWitness ==
    /\ DetailsBuilt
    /\ ~result.integrity_check
    /\ CountSum < result.total_params_in_spec
    /\ CountSum > 0

\* the aligner answered a non-empty parameters list whose length is not the
\* number of specification parameters
LengthDiffers ==
    /\ IsList(ReplyParameters)
    /\ ReplyParameters.list # <<>>
    /\ Len(ReplyParameters.list) # Len(Params(spec_data))

\* C8: when the aligner's non-empty parameters list has another length than
\* the specification, compare_documents still returns, the integrity flag
\* is false, the reason carries the integrity warning and the status is the
\* one verdict precedence yields from the returned details.
IntegrityViolationSurfaced ==
    (pc = "done" /\ ai_calls = 1 /\ LengthDiffers) =>
        /\ outcome = "returned"
        /\ ~result.integrity_check
        /\ WarningInReason
        /\ result.status = overall_status(CountStatus(result.details, "FAIL"),
                                          CountStatus(result.details, "MISSING"),
                                          CountStatus(result.details, "REVIEW"))

\* the names the specification's parameters carry
SpecNames == {Str(Strip(Get(Params(spec_data)[j], "name", <<>>))) :
                 j \in 1..Len(Params(spec_data))}

\* the names the details are about
DetailNames == {result.details[i].parameter : i \in 1..Len(result.details)}

\* C9: whenever the integrity flag of a result is true, every specification
\* parameter is the subject of exactly one entry of details: none absent,
\* none duplicated, no entry for a name the specification does not have.
ExactlyOneOutcome ==
    (Returned /\ result.integrity_check) =>
        \A name \in SpecNames \cup DetailNames :
            Cardinality({i \in 1..Len(result.details) :
                            result.details[i].parameter = name})
            = Cardinality({j \in 1..Len(Params(spec_data)) :
                              Str(Strip(Get(Params(spec_data)[j], "name", <<>>))) = name})

\* C10: in every returned result the counts are the tally of the details:
\* passed, failed, review and missing are the numbers of entries with that
\* status, and parameters_checked is their sum.
CountsAreTally ==
    Returned =>
        /\ result.parameters_passed = CountStatus(result.details, "PASS")
        /\ result.parameters_failed = CountStatus(result.details, "FAIL")
        /\ result.parameters_review = CountStatus(result.details, "REVIEW")
        /\ result.parameters_missing = CountStatus(result.details, "MISSING")
        /\ result.parameters_checked = CountSum

\* a certificate of kind COCA or COC without parameters that carries a
\* compliance statement, for a specification that has parameters, after the
\* document-type and product gates let the call through
ComplianceOnly ==
    /\ ~TypeRejected
    /\ ~ProductsDiffer
    /\ Len(Params(spec_data)) >= 1
    /\ cert_type \in {"COCA", "COC"}
    /\ Params(cert_data) = <<>>
    /\ Get(cert_data, "compliance_statement", <<>>) # <<>>

\* C11: for a specification with n >= 1 parameters and a COCA or COC
\* certificate with no parameters and a non-empty compliance statement,
\* compare_documents returns REVIEW with exactly n details, one per
\* specification parameter in specification order, all MISSING, with
\* parameters_missing = n and a true integrity flag, and never calls the
\* aligner.
ComplianceOnlyMarksAllMissing ==
    (pc = "done" /\ ComplianceOnly) =>
        /\ outcome = "returned"
        /\ result.status = "REVIEW"
        /\ Len(result.details) = Len(Params(spec_data))
        /\ \A i \in 1..Len(result.details) :
              /\ result.details[i].parameter
                    = Str(Get(Params(spec_data)[i], "name", <<>>))
              /\ result.details[i].status = "MISSING"
        /\ result.parameters_missing = Len(Params(spec_data))
        /\ result.integrity_check
        /\ ai_calls = 0

\* a COC certificate with only a compliance statement, returned for a
\* specification of three parameters
ComplianceOnlyWitness ==
    /\ Returned
    /\ ComplianceOnly
    /\ cert_type = "COC"
    /\ Len(Params(spec_data)) = 3
    /\ Len(result.details) = 3

\* a classification is supplied and its document type, compared without
\* regard to case, is none of the accepted ones
TypeUnexpected ==
    /\ classification # None
    /\ Upper(Get(classification, "document_type", <<>>)) \notin valid_cert_types

\* the overall reason quotes the classified type
ReasonStatesType ==
    /\ Len(result.reason.str) > 0
    /\ result.reason.str[1] = "Invalid document type: '"

\* C12: whenever a classification is supplied whose document_type is not
\* one of COA, COCA, COC, Product_Specification, an empty or absent type
\* included, the result is FAIL with a reason stating the type, zero
\* parameters checked and comparison_skipped true, and neither a later gate
\* nor the aligner is evaluated.
UnexpectedTypeIsTerminal ==
    (pc = "done" /\ TypeUnexpected) =>
        /\ outcome = "returned"
        /\ result.status = "FAIL"
        /\ ReasonStatesType
        /\ result.parameters_checked = 0
        /\ "comparison_skipped" \in DOMAIN result
        /\ result.comparison_skipped
        /\ ~result.document_type_valid
        /\ ai_calls = 0

\* the result was built from the entries of the aligner's parameters list
BuiltFromAligner ==
    /\ DetailsBuilt
    /\ IsList(ReplyParameters)
    /\ ReplyParameters.list # <<>>

\* the status string of entry i of the aligner's list, None when absent
RawStatus(i) == Get(ReplyParameters.list[i].obj, "status", None)

\* C13: every entry of details of every result has a status among PASS,
\* FAIL, REVIEW and MISSING whatever the aligner answered: the entry made
\* from an aligner entry is MISSING for NOT_IN_CERT, keeps one of the four
\* statuses, and is REVIEW for any other or an absent status.
StatusesAreCoerced ==
    /\ Returned => DetailStatuses \subseteq {"PASS", "FAIL", "REVIEW", "MISSING"}
    /\ BuiltFromAligner =>
          /\ Len(result.details) = Len(ReplyParameters.list)
          /\ \A i \in 1..Len(result.details) :
                result.details[i].status =
                    CASE RawStatus(i) = Str(<<"N", "O", "T", "_", "I", "N", "_", "C", "E", "R", "T">>) -> "MISSING"
                      [] RawStatus(i) = Str(<<"P", "A", "S", "S">>) -> "PASS"
                      [] RawStatus(i) = Str(<<"F", "A", "I", "L">>) -> "FAIL"
                      [] RawStatus(i) = Str(<<"M", "I", "S", "S", "I", "N", "G">>) -> "MISSING"
                      [] OTHER -> "REVIEW"

\* a result built from an entry without a status and an entry whose status
\* is the unknown string pass: both are REVIEW
StatusesCoercedWitness ==
    /\ BuiltFromAligner
    /\ Len(result.details) = 2
    /\ RawStatus(1) = None
    /\ RawStatus(2) = Str(<<"p", "a", "s", "s">>)
    /\ result.details[1].status = "REVIEW"
    /\ result.details[2].status = "REVIEW"

\* the confidence of entry i of details lies within [0, 1]
ConfidenceWithinUnit(i) ==
    /\ NumLe([n |-> 0, d |-> 1], result.details[i].confidence)
    /\ NumLe(result.details[i].confidence, [n |-> 1, d |-> 1])

\* C14: every entry of details of every result has a confidence within
\* [0, 1], for every aligner reply, also one that carries a confidence above
\* 1 or below 0, and on the fallback and compliance-statement paths.
ConfidenceInRange ==
    Returned => \A i \in 1..Len(result.details) : ConfidenceWithinUnit(i)

\* C15: every entry of details whose status is FAIL, REVIEW or MISSING
\* carries a non-empty reason, on the aligner path (also when the status was
\* coerced to REVIEW or the aligner left the reason out), on the fallback
\* path and on the compliance-statement path.
NonPassHasReason ==
    Returned =>
        \A i \in 1..Len(result.details) :
            result.details[i].status \in {"FAIL", "REVIEW", "MISSING"} =>
                result.details[i].reason # Str(<<>>)

\* C16: every result compare_documents returns, on every gate and on the
\* classification path, carries a non-empty overall reason, the
\* product-mismatch result built from the aligner's product_match_reason
\* included.
ReasonNeverEmpty ==
    Returned => result.reason # Str(<<>>)

---------------------------------------------------------------------------
(* Properties of _check_product_match *)

\* the call has returned
ProductChecked == product_check.verdict # None

\* the tokens of the two names
SpecTokens == _normalize_product_tokens(product_check.spec_product)

CertTokens == _normalize_product_tokens(product_check.cert_product)

\* two tokens are the same after alias expansion: equal, alias and
\* canonical name of each other, or aliases of one canonical name
SameChemical(x, y) ==
    \/ x = y
    \/ <<x, y>> \in CHEM_ALIASES
    \/ <<y, x>> \in CHEM_ALIASES
    \/ \E a \in CHEM_ALIASES, b \in CHEM_ALIASES :
          a[1] = x /\ b[1] = y /\ a[2] = b[2]

\* one of two tokens of length >= 3 begins with the other
PrefixOfOther(x, y) ==
    Len(x) >= 3 /\ Len(y) >= 3 /\ (StartsWith(x, y) \/ StartsWith(y, x))

\* one of two tokens of length >= 3 occurs inside the other
PartOfOther(x, y) ==
    Len(x) >= 3 /\ Len(y) >= 3 /\ (Contains(x, y) \/ Contains(y, x))

\* the names share a sequence of digits
SharedDigits ==
    Runs(product_check.spec_product, Digits)
        \cap Runs(product_check.cert_product, Digits) # {}

\* the verdict is the mismatch: confidence 0.1 and a reason with both names
MismatchVerdict ==
    /\ product_check.verdict.confidence = [n |-> 1, d |-> 10]
    /\ Contains(product_check.verdict.reason, product_check.spec_product)
    /\ Contains(product_check.verdict.reason, product_check.cert_product)

\* C18: _check_product_match answers is_match true with confidence 0.5
\* whenever a name is empty, and answers false, then always with confidence
\* 0.1 and a reason naming both products, only when both names are
\* non-empty and no two tokens are the same after alias expansion, none
\* begins with or occurs inside another (length >= 3) and no digit sequence
\* is shared.
ProductMatchLenient ==
    ProductChecked =>
        /\ (product_check.spec_product = <<>> \/ product_check.cert_product = <<>>) =>
              /\ product_check.verdict.is_match
              /\ product_check.verdict.confidence = [n |-> 5, d |-> 10]
        /\ ~product_check.verdict.is_match =>
              /\ product_check.spec_product # <<>>
              /\ product_check.cert_product # <<>>
              /\ \A x \in SpecTokens, y \in CertTokens :
                    ~SameChemical(x, y) /\ ~PrefixOfOther(x, y) /\ ~PartOfOther(x, y)
              /\ ~SharedDigits
              /\ MismatchVerdict

---------------------------------------------------------------------------
(* Properties of ComparisonSchema *)

\* the constructor has run on counts that are all non-negative
ConstructedFromCounts ==
    /\ schema_call.constructed # None
    /\ schema_call.fields.parameters_checked >= 0
    /\ schema_call.fields.parameters_passed >= 0
    /\ schema_call.fields.parameters_failed >= 0
    /\ schema_call.fields.parameters_review >= 0

\* passed + failed + review of the constructor's arguments
CountedSum ==
    schema_call.fields.parameters_passed + schema_call.fields.parameters_failed
    + schema_call.fields.parameters_review

\* C20: for all non-negative counts, parameters_checked = 0 included,
\* constructing a ComparisonSchema fails with a validation error when
\* passed + failed + review is greater than parameters_checked and
\* succeeds when the sum is at most parameters_checked.
SchemaRejectsExcess ==
    ConstructedFromCounts =>
        IF CountedSum > schema_call.fields.parameters_checked
        THEN schema_call.constructed.raises = "ValidationError"
        ELSE schema_call.constructed.raises = ""

---------------------------------------------------------------------------
(* Properties of the retry decorators *)

\* the limit of invocations of each decorator
AttemptLimit ==
    CASE retry_call.decorator = "retry_openai_call" -> 3
      [] retry_call.decorator = "retry_file_io" -> 3
      [] retry_call.decorator = "retry_pdf_operation" -> 2

\* invocation i raised an exception of the decorator's retryable set
RetryableFailure(i) ==
    /\ retry_call.invocations[i] # "return"
    /\ ShouldRetry(Decorator(retry_call.decorator), retry_call.invocations[i])

\* the outcome of the latest invocation
LastInvocation == retry_call.invocations[Len(retry_call.invocations)]

\* C19: the wrapped function is invoked again only after it raised an
\* exception of the decorator's retryable set; the call ends at the first of
\* a successful return, an exception outside the set (propagated at once) and
\* the N-th consecutive retryable failure (the last exception re-raised);
\* so there are at most N invocations, N = 3 for retry_openai_call and
\* retry_file_io and 2 for retry_pdf_operation, whatever the retryable
\* types were.
RetryIsBounded ==
    /\ Len(retry_call.invocations) <= AttemptLimit
    /\ \A i \in 1..(Len(retry_call.invocations) - 1) : RetryableFailure(i)
    /\ retry_call.state = "calling" =>
          /\ Len(retry_call.invocations) < AttemptLimit
          /\ \A i \in 1..Len(retry_call.invocations) : RetryableFailure(i)
    /\ retry_call.state = "returned" => LastInvocation = "return"
    /\ retry_call.state = "raised" =>
          /\ LastInvocation # "return"
          /\ retry_call.exception = LastInvocation
          /\ (~RetryableFailure(Len(retry_call.invocations))
                 \/ Len(retry_call.invocations) = AttemptLimit)

\* retry_file_io gave up after three failures of different retryable types
\* and raised the last one
RetryExhaustedWitness ==
    /\ retry_call.decorator = "retry_file_io"
    /\ retry_call.invocations = <<"OSError", "PermissionError", "FileNotFoundError">>
    /\ retry_call.state = "raised"
    /\ retry_call.exception = "FileNotFoundError"

---------------------------------------------------------------------------
(* Properties of interleaved compare_documents calls *)

\* the frame in which a call with the arguments of f ends when it runs
\* alone and the aligner answers reply
RECURSIVE RunAlone(_, _)
RunAlone(f, reply) ==
    IF f.pc = "done" THEN f
    ELSE IF f.pc = "align" THEN RunAlone(Aligned(f, reply), reply)
    ELSE RunAlone(Advance(f), reply)

\* call i has ended as it ends alone on the same arguments and reply
EndsAsAlone(i) ==
    LET f == frames.calls[i]
        alone == RunAlone(Frame(f.args), f.ai_reply)
    IN  f.outcome = alone.outcome /\ f.result = alone.result

---------------------------------------------------------------------------
(* Properties of normalize_unit *)

\* C21: normalize_unit is idempotent: for every unit string, a key or value
\* of the alias table in any letter case and between whitespace or a string
\* the table does not have, normalize_unit(normalize_unit(x)) equals
\* normalize_unit(x).
NormalizeUnitIdempotent ==
    unit_call.calls = 2 => unit_call.twice = unit_call.once

\* an alias written in upper case between whitespace was mapped to its
\* canonical form, which the second call left as it is
NormalizeUnitWitness ==
    /\ unit_call.calls = 2
    /\ unit_call.unit = <<"\t">> \o <<"M", "G", "/", "L">> \o <<" ">>
    /\ unit_call.once = <<"p", "p", "m">>
    /\ unit_call.twice = <<"p", "p", "m">>

---------------------------------------------------------------------------
(* Properties of the deterministic fallback *)

\* the fallback has built its details
FallbackBuilt == param_call.returned # None /\ param_call.returned.raises = ""

\* some certificate parameter has the trimmed name or the normalized name
\* of specification parameter j
HasCounterpart(j) ==
    LET spec_name == Strip(Get(param_call.spec_data.parameters[j], "name", <<>>))
        cps == param_call.cert_data.parameters
    IN  \E i \in 1..Len(cps) :
            \/ Strip(Get(cps[i], "name", <<>>)) = spec_name
            \/ normalize_param_name(Get(cps[i], "name", <<>>))
                  = normalize_param_name(spec_name)

\* C22: on the deterministic fallback path the detail of a specification
\* parameter is MISSING exactly when no certificate parameter has its
\* trimmed name and none has its normalized name: a matched parameter is
\* never MISSING whatever its certificate value, units or limits contain,
\* and an unmatched one is never PASS, FAIL or REVIEW.
MissingIffUnmatched ==
    FallbackBuilt =>
        /\ Len(param_call.returned.v) = Len(param_call.spec_data.parameters)
        /\ \A j \in 1..Len(param_call.returned.v) :
              (param_call.returned.v[j].status = "MISSING") <=> ~HasCounterpart(j)

---------------------------------------------------------------------------
(* Coverage of an overall PASS *)

\* C27: whenever compare_documents returns status PASS the integrity flag
\* is true and parameters_passed equals total_params_in_spec, so an aligner
\* response that omits specification parameters never yields PASS.
PassMeansFullCoverage ==
    (Returned /\ result.status = "PASS")
        => /\ result.integrity_check
           /\ result.parameters_passed = result.total_params_in_spec

---------------------------------------------------------------------------
(* The substring rule of _check_product_match *)

\* C26: _check_product_match answers is_match true whenever a token of the
\* specification name and a token of the certificate name, each of at least
\* 3 characters, are in a substring relationship: one occurs anywhere
\* inside the other, not only at its beginning.
SubstringTokensMatch ==
    (ProductChecked /\ \E x \in SpecTokens, y \in CertTokens : PartOfOther(x, y))
        => product_check.verdict.is_match

---------------------------------------------------------------------------
(* Properties of the comparison of one matched parameter *)

\* _compare_single_param has returned a result dict
SingleReturned == param_call.returned # None /\ param_call.returned.raises = ""

SingleStatus == param_call.returned.v.status

\* what the certificate value parses to
CertParsed == parse_value(param_call.cert_param.value)

\* the certificate value parses to a number and is no not-detected token
NumericCertValue ==
    /\ CertParsed.raises = ""
    /\ CertParsed.val # None
    /\ CertParsed.q # "not_detected"

MinParsed == parse_value(param_call.spec_param.min_limit)

MaxParsed == parse_value(param_call.spec_param.max_limit)

\* a min limit, a max limit that is a number
MinIsNumber ==
    /\ param_call.spec_param.min_limit # <<>>
    /\ MinParsed.raises = ""
    /\ MinParsed.val # None

MaxIsNumber ==
    /\ param_call.spec_param.max_limit # <<>>
    /\ MaxParsed.raises = ""
    /\ MaxParsed.val # None

\* no limit text makes parse_value raise
LimitsParse == MinParsed.raises = "" /\ MaxParsed.raises = ""

\* the canonical forms of the two units are the same
SameCanonicalUnit ==
    normalize_unit(param_call.spec_param.unit) = normalize_unit(param_call.cert_param.unit)

\* the certificate value in the specification's unit, None when there is
\* no conversion
ConvertedCert ==
    convert_value(CertParsed.val, param_call.cert_param.unit, param_call.spec_param.unit)

\* the units are the same or the value can be converted
Reconciled == SameCanonicalUnit \/ ConvertedCert # None

\* value is strictly below a numeric min limit or strictly above a numeric
\* max limit
FailTrigger(value) ==
    \/ MinIsNumber /\ NumLt(value, MinParsed.val)
    \/ MaxIsNumber /\ NumLt(MaxParsed.val, value)

\* C23: for a certificate value that parses to a number, a specification
\* with at least one numeric limit and reconciled units, the status is
\* FAIL exactly when the (possibly converted) value is strictly below the
\* min limit or strictly above the max limit, and PASS otherwise; a value
\* equal to a limit is PASS and so is a less-than value within the limits.
BoundsDecide ==
    (SingleReturned /\ NumericCertValue /\ (MinIsNumber \/ MaxIsNumber) /\ Reconciled)
        => SingleStatus = IF FailTrigger(ConvertedCert) THEN "FAIL" ELSE "PASS"

\* C24: for a numeric certificate value and a specification with a limit,
\* when the canonical forms of the two units differ (one of them may be
\* empty) the value is converted and the converted value is compared, or
\* the result is REVIEW; the unconverted value is never compared.
ConvertedOrReview ==
    (SingleReturned /\ NumericCertValue /\ ~SameCanonicalUnit
     /\ (param_call.spec_param.min_limit # <<>> \/ param_call.spec_param.max_limit # <<>>))
        => IF ConvertedCert = None
           THEN SingleStatus = "REVIEW"
           ELSE LimitsParse =>
                   SingleStatus = IF FailTrigger(ConvertedCert) THEN "FAIL" ELSE "PASS"

\* the certificate value has no digit and is neither a not-detected nor a
\* not-applicable token
QualitativeCertValue ==
    /\ \A i \in 1..Len(param_call.cert_param.value) :
          param_call.cert_param.value[i] \notin Digits
    /\ Upper(Strip(param_call.cert_param.value)) \notin NotDetectedWords \cup NotApplicableWords

\* C25: for a qualitative certificate value the result is REVIEW when the
\* specification has a min or max limit; otherwise PASS exactly when the
\* normalized specification value equals the normalized certificate value
\* and REVIEW for every mismatch, an empty specification value included.
QualitativeDecides ==
    (SingleReturned /\ QualitativeCertValue)
        => SingleStatus =
              IF param_call.spec_param.min_limit # <<>> \/ param_call.spec_param.max_limit # <<>>
              THEN "REVIEW"
              ELSE IF normalize_param_name(param_call.spec_param.value)
                         = normalize_param_name(param_call.cert_param.value)
              THEN "PASS" ELSE "REVIEW"

\* C28: a numeric certificate value is PASS only if a limit of the
\* specification parsed to a number and was compared with it.
PassNeedsParsedLimit ==
    (SingleReturned /\ NumericCertValue /\ SingleStatus = "PASS")
        => (MinIsNumber \/ MaxIsNumber)

---------------------------------------------------------------------------
(* Properties of the audit log *)

\* how often a row occurs in a sequence of rows
Occurrences(rows, row) == Cardinality({i \in 1..Len(rows) : rows[i] = row})

\* the data rows of the file, in file order
DataRows == SelectSeq(audit.rows, LAMBDA r : r # AUDIT_COLUMNS)

\* C29: the audit log is append-only under every interleaving of log_result
\* and log_error calls, also of runs that start while the file does not
\* exist: the header row is written once, at the top, and a data row whose
\* append has completed stays in the file, in the order of the appends.
AuditLogAppendOnly ==
    /\ Occurrences(audit.rows, AUDIT_COLUMNS) <= 1
    /\ audit.rows # <<>> => Head(audit.rows) = AUDIT_COLUMNS
    /\ DataRows = audit.appended

\* a call of log_result that has built its row
BuiltResultRow(p) ==
    /\ audit.calls[p].fn = "log_result"
    /\ audit.calls[p].at \in {"append", "done"}

\* C30: each row written by log_result carries, under the columns
\* Parameters_Checked, Parameters_Passed, Parameters_Failed and
\* Parameters_Missing, the comparison's parameters_checked,
\* parameters_passed, parameters_failed and parameters_missing.
AuditRowCarriesCounts ==
    \A p \in Loggers :
        BuiltResultRow(p) =>
            /\ Cell(audit.calls[p].row, "Parameters_Checked")
                  = CountText(Get(audit.calls[p].comparison, "parameters_checked", 0))
            /\ Cell(audit.calls[p].row, "Parameters_Passed")
                  = CountText(Get(audit.calls[p].comparison, "parameters_passed", 0))
            /\ Cell(audit.calls[p].row, "Parameters_Failed")
                  = CountText(Get(audit.calls[p].comparison, "parameters_failed", 0))
            /\ Cell(audit.calls[p].row, "Parameters_Missing")
                  = CountText(Get(audit.calls[p].comparison, "parameters_missing", 0))

=============================================================================
